---- MODULE Spec2Model ----
(***************************************************************************)
(* Socket.IO server side of tomruk/socket.io-go: the per-connection         *)
(* demultiplexer (server_conn.go) and the server socket (socket_server.go). *)
(* A connection owns a socket store keyed by socket ID; inbound Engine.IO   *)
(* MESSAGE frames are parsed and dispatched; outbound packets are handed to *)
(* one goroutine per packet (`go c.eio.Send`).                              *)
(*                                                                          *)
(* The session-aware adapter (adapter/adapter_session_aware.go) keeps the   *)
(* sessions of disconnected sockets and the packets broadcast since; it has *)
(* its own variables and its own specification, SpecAdapter.                *)
(*                                                                          *)
(* The Engine.IO server (eio.Server: ServeHTTP, handshake, upgrade, Close)  *)
(* and the Socket.IO client (sio.Client: connect, reconnect) have their own *)
(* variables and specifications as well.                                    *)
(*                                                                          *)
(* Specifications: Spec (connections, dispatch, sending), SpecSocket        *)
(* (Emit under any event name), SpecRooms (Join and Leave), SpecEvents      *)
(* (handlers and inbound events), SpecAdapter (sessions and packets),       *)
(* SpecUpgrade (transport upgrade), SpecHTTP (requests and their answers),  *)
(* SpecClose (closing), SpecFrames (buffer limit), SpecClient (reconnect).  *)
(* SpecBroadcast (concurrent Broadcast calls), SpecInclude (recipients of   *)
(* a broadcast), SpecDisconnect (closing a server socket), SpecAcks         *)
(* (acknowledging events), SpecClientClose (Disconnect of the client).      *)
(***************************************************************************)
EXTENDS Integers, Sequences, FiniteSets, TLC

\* ---------------------------------------------------------------- bounds
MaxSockets == 2      \* socket IDs the ID generator hands out in a run
MaxPackets == 3      \* packets handed to one connection for sending
MaxBuffered == 3     \* offsets the yeaster hands out in a run
MaxTime == 2         \* the clock runs from 0 to MaxTime
MaxCalls == 2        \* calls of Broadcast that run beside each other

\* ------------------------------------------------------------ vocabulary
Conns == {"c1"}
IDNames == <<"s1", "s2", "s3", "s4", "s5">>
InNamespaces == {"", "/a"}          \* header.Namespace as the parser yields it
NoID == -1                          \* header.ID == nil
AckIDs == {NoID, 0}

Packet(t, n, i, d) == [type |-> t, nsp |-> n, id |-> i, data |-> d]
NoPkt == Packet("NONE", "", NoID, "")
Ev(o, s, p) == [op |-> o, sid |-> s, pkt |-> p]

\* Inbound Engine.IO packets: MESSAGE frames the parser completes to a header,
\* MESSAGE frames the parser rejects, and non-MESSAGE packets.
\* `argc` is the number of values the payload of an EVENT decodes to.
Frame(k, t, n, i, a) ==
    [kind |-> k, type |-> t, nsp |-> n, id |-> i, auth |-> a, argc |-> 0]
Frames ==
    {Frame("message", "CONNECT", n, NoID, a) : n \in InNamespaces, a \in {"ok", "deny"}}
    \cup {Frame("message", "DISCONNECT", n, NoID, "") : n \in InNamespaces}
    \cup {Frame("message", "EVENT", "", NoID, "")}
    \cup {Frame("message", "ACK", "", i, "") : i \in AckIDs}
    \cup {Frame("malformed", "NONE", "", NoID, ""), Frame("ping", "NONE", "", NoID, "")}
\* An inbound EVENT named "ev" with ack ID i (or none) and k decoded values.
EventFrame(n, i, k) == [Frame("message", "EVENT", n, i, "") EXCEPT !.argc = k]
HandlerArgs == {0, 1}               \* len(handler.inputArgs) of a handler
SameArgs == {0, 2}                  \* two handlers that take no argument
InboundFor(types) == {f \in Frames : f.kind = "message" /\ f.type \in types}
\* header.Namespace is what the client wrote: a namespace, or any other
\* string, such as the ID of the client's own socket.
EventNamespaces == InNamespaces \cup {"s1"}
EventFrames ==
    {EventFrame(n, i, k) : n \in EventNamespaces, i \in AckIDs, k \in HandlerArgs}
EventNames == {"ev", "connect", "disconnecting"}
Rooms == {"r1"}                     \* rooms the application joins and leaves
\* ServerConfig.AcceptAnyNamespace: "Default: false".
AcceptAnyNamespace == FALSE
\* One onEIOPacket call carries one frame (websocket) or several (polling).
Batches == {<<f>> : f \in Frames} \cup {<<f, g>> : f \in Frames, g \in Frames}

VARIABLES
    conns,          \* connections created by newServerConn
    eioOpen,        \* conn -> the Engine.IO socket is open
    namespaces,     \* Server.namespaces: names created by Of
    nspSockets,     \* namespace -> socket IDs in the namespace's socket store
    rooms,          \* adapter membership: set of <<namespace, sid, room>>
    connSockets,    \* conn -> serverSocketStore.sockets (map key -> socket)
    connNsps,       \* conn -> serverConn.nsps
    sock,           \* allocated sockets: sid -> fields of serverSocket
    nextSid,        \* index of the next ID the generator returns
    trace,          \* conn -> events in program order (set / hand / callback)
    sent,           \* conn -> trace positions whose goroutine has run eio.Send
    reordered,      \* conn -> some Send ran after the Send of a later packet
    parseFailed,    \* conn -> parser.Add has returned an error
    crashed,        \* an unrecovered panic ended the process
    last,           \* the operation the last step performed
    sessions,       \* sessionAwareAdapter.sessions: pid -> sessionWithTimestamp
    packets,        \* sessionAwareAdapter.packets: the persisted packets
    now,            \* time.Now()
    yeast,          \* offsets the yeaster has produced
    res,            \* what the last adapter call returned or forwarded
    calls,          \* concurrent Broadcast calls: where each one stands
    forwarded,      \* what inMemoryAdapter.Broadcast was called with, in order
    server,         \* eio.Server: the fields NewServer sets, or NoServer
    closed,         \* eio.Server.closed: the channel is closed
    estore,         \* eio socketStore: the sids it holds
    esock,          \* eio serverSockets created: sid -> fields
    transports,     \* eio ServerTransports created, in order of creation
    noops,          \* sid -> `go socket.Send(noop)` goroutines not yet run
    ct,             \* the websocket ClientTransport of one dialled client
    elast,          \* what the last Engine.IO step answered, wrote, delivered
    client,         \* sio.Client: connState, backoff, locks, emitted events
    pc              \* goroutine -> call stack of the client goroutine

serverVars == <<conns, eioOpen, namespaces, nspSockets, rooms, connSockets, connNsps,
                sock, nextSid, trace, sent, reordered, parseFailed, crashed, last>>

adapterVars == <<sessions, packets, now, yeast, res, calls, forwarded>>

engineVars == <<server, closed, estore, esock, transports, noops, ct, elast>>

clientVars == <<client, pc>>

vars == <<conns, eioOpen, namespaces, nspSockets, rooms, connSockets, connNsps,
          sock, nextSid, trace, sent, reordered, parseFailed, crashed, last,
          sessions, packets, now, yeast, res, calls, forwarded,
          server, closed, estore, esock, transports, noops, ct, elast,
          client, pc>>

State == [conns |-> conns, eioOpen |-> eioOpen, namespaces |-> namespaces,
          nspSockets |-> nspSockets, rooms |-> rooms, connSockets |-> connSockets,
          connNsps |-> connNsps, sock |-> sock, nextSid |-> nextSid,
          trace |-> trace, parseFailed |-> parseFailed,
          delivered |-> <<>>]

Install(st) ==
    /\ conns' = st.conns
    /\ eioOpen' = st.eioOpen
    /\ namespaces' = st.namespaces
    /\ nspSockets' = st.nspSockets
    /\ rooms' = st.rooms
    /\ connSockets' = st.connSockets
    /\ connNsps' = st.connNsps
    /\ sock' = st.sock
    /\ nextSid' = st.nextSid
    /\ trace' = st.trace
    /\ UNCHANGED <<sent, reordered>>
    /\ parseFailed' = st.parseFailed
    /\ UNCHANGED <<adapterVars, engineVars, clientVars>>

AllNamespaces == {"/", "/a"}

\* ------------------------------------------------------ serverSocketStore
Get(store, key) == IF key \in DOMAIN store THEN <<store[key], TRUE>> ELSE <<"", FALSE>>

GetAll(store) == {store[k] : k \in DOMAIN store}

Set(store, s) == [k \in (DOMAIN store) \cup {s} |-> IF k = s THEN s ELSE store[k]]

Remove(store, key) == [k \in (DOMAIN store) \ {key} |-> store[k]]

\* ------------------------------------------------------------ serverSocket
\* newServerSocket fills id, server, conn, nsp, parser and emitter; the acks
\* map is left nil and ackID zero.
newServerSocket(c, n) ==
    [conn |-> c, nsp |-> n, acksMade |-> FALSE, acks |-> {}, ackID |-> 0,
     errors |-> 0, disconnecting |-> 0, disconnect |-> 0, ackCalled |-> <<>>,
     handlers |-> {}, calls |-> <<>>, left |-> FALSE]

\* serverConn.packet: `go c.eio.Send(packets...)` -- the packet is handed to
\* a new goroutine; Send itself runs in SendGoroutine.
packet(st, c, s, p) == [st EXCEPT !.trace[c] = Append(@, Ev("hand", s, p))]

\* serverConn.sendBuffers: the encoder always yields at least one buffer.
sendBuffers(st, c, s, p) == packet(st, c, s, p)

\* serverSocket.onError: every registered 'error' handler is called.
onError(st, s) == [st EXCEPT !.sock[s].errors = @ + 1]

\* serverSocket.emitReserved for 'disconnecting' and 'disconnect'.
emitReserved(st, s, eventName) ==
    IF eventName = "disconnecting" THEN [st EXCEPT !.sock[s].disconnecting = @ + 1]
    ELSE [st EXCEPT !.sock[s].disconnect = @ + 1]

\* Namespace.remove(socket): the socket leaves the namespace's socket store.
nspRemove(st, s) == [st EXCEPT !.nspSockets[st.sock[s].nsp] = @ \ {s}]

\* Adapter.DeleteAll(sid), reached through serverSocket.leaveAll.
leaveAll(st, s) ==
    [st EXCEPT !.rooms = {m \in @ : ~(m[1] = st.sock[s].nsp /\ m[2] = s)}]

\* serverSocket.onClose
onClose(st, s) ==
    LET st1 == emitReserved(st, s, "disconnecting")
        st2 == nspRemove(st1, s)
        st3 == leaveAll(st2, s)
        st4 == [st3 EXCEPT !.connSockets[st.sock[s].conn] = Remove(@, s)]
    IN emitReserved(st4, s, "disconnect")

\* serverSocket.onDisconnect
onDisconnect(st, s) == onClose(st, s)

\* serverSocket.onAck
onAck(st, s, hdr) ==
    IF hdr.id = NoID THEN onError(st, s)
    ELSE LET ok == st.sock[s].acksMade /\ hdr.id \in st.sock[s].acks
             st1 == IF ok THEN [st EXCEPT !.sock[s].acks = @ \ {hdr.id}] ELSE st
         IN IF ~ok THEN onError(st1, s)
            ELSE [st1 EXCEPT !.sock[s].ackCalled = Append(@, hdr.id)]

\* len(handler.inputArgs): handlers 0 and 1 take as many arguments as their
\* number says; handler 2 is a second function without arguments.
inputArgs(h) == h % 2

\* serverSocket.onEvent for one handler h: a decoded value count other than
\* the handler's argument count is reported to onError; otherwise a
\* goroutine is started that calls the handler and answers header.ID.
onEvent(st, s, h, hdr) ==
    IF hdr.argc = inputArgs(h) THEN [st EXCEPT !.sock[s].calls = Append(@, <<h, hdr.id>>)]
    ELSE onError(st, s)

\* The loop of onPacket over emitter.GetHandlers(eventName).
RECURSIVE onEvents(_, _, _, _)
onEvents(st, s, hs, hdr) ==
    IF hs = {} THEN st
    ELSE LET h == CHOOSE x \in hs : \A y \in hs : x <= y
         IN onEvents(onEvent(st, s, h, hdr), s, hs \ {h}, hdr)

\* serverSocket.onPacket
onPacket(st, s, hdr) ==
    LET st1 == [st EXCEPT !.delivered = Append(@, <<s, hdr.type>>)]
    IN CASE hdr.type = "EVENT" -> onEvents(st1, s, st.sock[s].handlers, hdr)
         [] hdr.type = "ACK" -> onAck(st1, s, hdr)
         [] hdr.type = "DISCONNECT" -> onDisconnect(st1, s)
         [] OTHER -> st1

\* serverSocket.onConnect
onConnect(st, s) ==
    sendBuffers(st, st.sock[s].conn, s, Packet("CONNECT", st.sock[s].nsp, NoID, s))

\* serverSocket.sendControlPacket
sendControlPacket(st, s, typ) ==
    sendBuffers(st, st.sock[s].conn, s, Packet(typ, st.sock[s].nsp, NoID, ""))

\* serverSocket.sendDataPacket when it does not panic: with a trailing
\* function the handler is stored under ackID, the counter is incremented
\* and the header carries the ID; the function is cut from the payload.
sendDataPacket(st, s, eventName, withAck) ==
    LET id == st.sock[s].ackID
        st1 == IF withAck
               THEN [st EXCEPT !.sock[s].acks = @ \cup {id}, !.sock[s].ackID = @ + 1]
               ELSE st
    IN sendBuffers(st1, st.sock[s].conn, s,
                   Packet("EVENT", st.sock[s].nsp, IF withAck THEN id ELSE NoID, eventName))

\* IsEventReservedForServer: the names a server socket must not emit.
IsEventReservedForServer(eventName) ==
    eventName \in {"connect", "connect_error", "disconnect", "disconnecting",
                   "newListener", "removeListener"}

\* Mutant of sendDataPacketPanics: no check of the event name.
sendDataPacketPanicsOnNilMapOnly(st, s, eventName, withAck) ==
    withAck /\ ~st.sock[s].acksMade

\* sendDataPacket panics on a reserved event name before it looks at the
\* arguments; `s.acks[id] = ackHandler` on a nil map panics.
sendDataPacketPanics(st, s, eventName, withAck) ==
    IsEventReservedForServer(eventName) \/ (withAck /\ ~st.sock[s].acksMade)

\* serverSocket.sendAckPacket: the handler's return values always convert.
sendAckPacket(st, s, id) ==
    sendBuffers(st, st.sock[s].conn, s, Packet("ACK", st.sock[s].nsp, id, "ret"))

\* The goroutine onEvent starts: handler.Call, then the ACK when the header
\* carried an ID.
handlerGoroutine(st, s, i, err) ==
    LET call == st.sock[s].calls[i]
        st1 == [st EXCEPT !.sock[s].calls =
                   SubSeq(@, 1, i - 1) \o SubSeq(@, i + 1, Len(@))]
    IN IF err THEN onError(st1, s)
       ELSE IF call[2] # NoID THEN sendAckPacket(st1, s, call[2])
       ELSE st1

\* Adapter.AddAll(sid, rooms), reached through serverSocket.Join.
addAll(st, s, rs) ==
    [st EXCEPT !.rooms = @ \cup {<<st.sock[s].nsp, s, r>> : r \in rs}]

\* Adapter.Delete(sid, room), reached through serverSocket.Leave.
delete(st, s, r) == [st EXCEPT !.rooms = @ \ {<<st.sock[s].nsp, s, r>>}]

\* -------------------------------------------------------------- serverConn
\* Server.Of: namespaceStore.GetOrCreate creates the namespace when absent.
Of(st, n) == [st EXCEPT !.namespaces = @ \cup {n}]

\* Namespace.add(c, auth): the middleware chain may reject; otherwise a socket
\* is allocated, stored in the namespace and joined to the room of its own ID.
nspAdd(st, c, n, auth) ==
    IF auth = "deny" THEN [ok |-> FALSE, sid |-> "", st |-> st]
    ELSE LET s == IDNames[st.nextSid]
         IN [ok |-> TRUE, sid |-> s,
             st |-> [st EXCEPT !.nextSid = @ + 1,
                               !.sock = [k \in (DOMAIN @) \cup {s} |->
                                           IF k = s THEN newServerSocket(c, n) ELSE @[k]],
                               !.nspSockets[n] = @ \cup {s},
                               !.rooms = @ \cup {<<n, s, s>>}]]

\* Mutant of connectError: the error is reported on the default namespace.
connectErrorOnRoot(st, c, n) ==
    sendBuffers(st, c, "", Packet("CONNECT_ERROR", "/", NoID, "rejected"))

\* serverConn.connectError
connectError(st, c, n) ==
    sendBuffers(st, c, "", Packet("CONNECT_ERROR", n, NoID, "rejected"))

\* Mutant of connect: the connection callback runs before the CONNECT reply
\* is handed for sending.
connectCallbackFirst(st, c, n, auth) ==
    LET r == nspAdd(Of(st, n), c, n, auth)
    IN IF ~r.ok THEN connectError(r.st, c, n)
       ELSE LET st1 == [r.st EXCEPT !.connSockets[c] = Set(@, r.sid),
                                    !.connNsps[c] = @ \cup {n},
                                    !.trace[c] = Append(Append(@, Ev("set", r.sid, NoPkt)),
                                                        Ev("callback", r.sid, NoPkt))]
            IN onConnect(st1, r.sid)

\* serverConn.connect.  The server runs with an OnSocket callback registered,
\* so onSocketHandler.Load() yields it and it is called with the new socket.
connect(st, c, n, auth) ==
    LET r == nspAdd(Of(st, n), c, n, auth)
    IN IF ~r.ok THEN connectError(r.st, c, n)
       ELSE LET st1 == [r.st EXCEPT !.connSockets[c] = Set(@, r.sid),
                                    !.connNsps[c] = @ \cup {n},
                                    !.trace[c] = Append(@, Ev("set", r.sid, NoPkt))]
                st2 == onConnect(st1, r.sid)
            IN [st2 EXCEPT !.trace[c] = Append(@, Ev("callback", r.sid, NoPkt))]

\* The namespace a header addresses: onFinishEIOPacket reads "" as "/".
Namespace(f) == IF f.nsp = "" THEN "/" ELSE f.nsp

\* serverConn.onFinishEIOPacket
onFinishEIOPacket(st, c, f) ==
    LET n == Namespace(f)
    IN IF f.type = "CONNECT" THEN connect(st, c, n, f.auth)
       ELSE LET g == Get(st.connSockets[c], n)
            IN IF ~g[2] THEN st ELSE onPacket(st, g[1], f)

\* serverConn.onEIOPacket: the loop over the batch, from frame i on.
\* serverConn.onError does nothing, so a parser error only ends the loop.
RECURSIVE onEIOPacket(_, _, _, _)
onEIOPacket(st, c, batch, i) ==
    IF i > Len(batch) THEN st
    ELSE LET f == batch[i]
         IN CASE f.kind = "ping" -> onEIOPacket(st, c, batch, i + 1)
              [] f.kind = "malformed" -> [st EXCEPT !.parseFailed[c] = TRUE]
              [] OTHER -> onEIOPacket(onFinishEIOPacket(st, c, f), c, batch, i + 1)

\* ------------------------------------------------------ sessionAwareAdapter
PIDs == {"p1", "p2"}
\* The sessions PersistSession is called with (SID, PID, Rooms).
SessionsToPersist ==
    {[sid |-> "s1", pid |-> "p1", rooms |-> {"r1"}, missed |-> <<>>],
     [sid |-> "s2", pid |-> "p1", rooms |-> {"r2"}, missed |-> <<>>]}
\* BroadcastOptions: the rooms addressed and the rooms excepted.
BroadcastOpts ==
    {[rooms |-> {"r1"}, except |-> {}],
     [rooms |-> {}, except |-> {"r1"}]}
Headers == {[type |-> "EVENT", id |-> NoID], [type |-> "EVENT", id |-> 0],
            [type |-> "ACK", id |-> 0]}
Payload == <<"ev", "x">>            \* v: the event name and its arguments
Offsets == 1..(MaxBuffered + 1)     \* offsets a client may present
maxDisconnectDuration == 1

\* What the last call returned or forwarded: RestoreSession returns `ok` and,
\* when ok, a pointer to the SessionToPersist stored under `pid`; Broadcast
\* calls inMemoryAdapter.Broadcast with `hdr` and `data`.
Res(o, k, p, h, v) == [op |-> o, ok |-> k, pid |-> p, hdr |-> h, data |-> v]
NoHeader == [type |-> "NONE", id |-> NoID]
NoRes == Res("none", FALSE, "", NoHeader, <<>>)

\* Mutant of hasExpired: a session expires one time unit late.
hasExpiredLate(s) == now > s.disconnectedAt + maxDisconnectDuration + 1

\* sessionWithTimestamp.hasExpired
hasExpired(s) == now > s.disconnectedAt + maxDisconnectDuration

\* PersistedPacket.HasExpired: time.Now().Before(EmittedAt.Add(max)).
HasExpired(p) == now < p.emittedAt + maxDisconnectDuration

\* shouldIncludePacket(sessionRooms, opts)
shouldIncludePacket(sessionRooms, opts) ==
    LET included == (opts.rooms = {}) \/ (\E r \in sessionRooms : r \in opts.rooms)
        notExcluded == ~(\E r \in sessionRooms : r \in opts.except)
    IN included /\ notExcluded

\* The first loop of RestoreSession: the index of the first packet whose ID
\* is the offset, from position i on; 0 stands for -1.
RECURSIVE index(_, _, _)
index(pkts, offset, i) ==
    IF i > Len(pkts) THEN 0
    ELSE IF pkts[i].id = offset THEN i
    ELSE index(pkts, offset, i + 1)

\* Mutant of missedPackets: every packet from position i on is missed.
missedPacketsUnfiltered(pkts, sessionRooms, i) == SubSeq(pkts, i, Len(pkts))

\* The second loop of RestoreSession, from position i on.
RECURSIVE missedPackets(_, _, _)
missedPackets(pkts, sessionRooms, i) ==
    IF i > Len(pkts) THEN <<>>
    ELSE IF shouldIncludePacket(sessionRooms, pkts[i].opts)
         THEN <<pkts[i]>> \o missedPackets(pkts, sessionRooms, i + 1)
         ELSE missedPackets(pkts, sessionRooms, i + 1)

\* The packets loop of cleaner, from position i down: the first packet
\* HasExpired reports is cut out and the loop ends.
RECURSIVE cleanPackets(_, _)
cleanPackets(pkts, i) ==
    IF i < 1 THEN pkts
    ELSE IF HasExpired(pkts[i])
         THEN SubSeq(pkts, 1, i - 1) \o SubSeq(pkts, i + 1, Len(pkts))
         ELSE cleanPackets(pkts, i - 1)

\* ------------------------------------------------------------------ steps
\* `id` is the ack ID the call read from the counter (NoID when none); `tick`
\* flips when a panicking Emit follows a panicking Emit, so that the repeated
\* call differs from no call.
Last(o, c, s, d, w, i) ==
    [op |-> o, conn |-> c, sid |-> s, delivered |-> d, withAck |-> w, id |-> i,
     tick |-> o = "EmitPanic" /\ last.op = "EmitPanic" /\ ~last.tick]

Handed(tr) == {i \in 1..Len(tr) : tr[i].op = "hand"}

Connects(batch) == {i \in 1..Len(batch) : batch[i].type = "CONNECT"}

\* ------------------------------------------------- Engine.IO: vocabulary
MaxEngineSockets == 2     \* sids generateSID hands out in a run
MaxTransports == 3        \* ServerTransports created in a run
MaxNoops == 1             \* `go socket.Send(noop)` goroutines pending per socket

SIDNames == <<"e1", "e2", "e3", "e4">>
SIDs == {SIDNames[i] : i \in 1..MaxEngineSockets}
ProtocolVersion == 4
defaultMaxBufferSize == 1048576
FrameLens == {1, 2}                \* raw byte length of an inbound frame
PacketTypes == {"PING", "UPGRADE", "MESSAGE"}
Configs == [MaxBufferSize : {0, 1}, DisableMaxBufferSize : BOOLEAN]
\* What the environment of one request does: which of the authenticator,
\* generateSID and the transport's Handshake is the first to fail, if any.
Envs == {"ok", "forbidden", "sid error", "handshake error"}
Requests == [method : {"GET", "POST"}, EIO : {"", "x", "3", "4"},
             sid : {""} \cup SIDs \cup {"bogus"},
             transport : {"polling", "websocket", "UFO"}]

\* serverErrors: the code written in the JSON body of a 400 response.
ErrorUnknownTransport == 0
ErrorUnknownSID == 1
ErrorBadHandshakeMethod == 2
ErrorBadRequest == 3
ErrorForbidden == 4
ErrorUnsupportedProtocolVersion == 5
NoCode == -1

NoRequest == [method |-> "", EIO |-> "", sid |-> "", transport |-> ""]
NoServer == [maxBufferSize |-> -1, disableMaxBufferSize |-> FALSE]
NoClientTransport == [conn |-> "nil", once |-> FALSE, onClose |-> <<>>]
ELast(o, st, cd, rt, cr, wr, dl, e) ==
    [op |-> o, status |-> st, code |-> cd, reached |-> rt, created |-> cr,
     wire |-> wr, delivered |-> dl, err |-> e, req |-> NoRequest, env |-> "ok"]
NoELast == ELast("init", 0, NoCode, 0, "", {}, <<>>, FALSE)

\* strconv.Atoi on the EIO query parameter.
Atoi(v) ==
    CASE v = "3" -> [n |-> 3, err |-> FALSE]
      [] v = "4" -> [n |-> 4, err |-> FALSE]
      [] OTHER -> [n |-> 0, err |-> TRUE]

\* Mutant of NewServer: DisableMaxBufferSize leaves the configured limit.
NewServerKeepingLimit(config) ==
    [maxBufferSize |->
        IF config.MaxBufferSize = 0 THEN defaultMaxBufferSize
        ELSE config.MaxBufferSize,
     disableMaxBufferSize |-> config.DisableMaxBufferSize]

\* NewServer: the buffer limit the server hands to its transports.
NewServer(config) ==
    [maxBufferSize |->
        IF config.DisableMaxBufferSize THEN 0
        ELSE IF config.MaxBufferSize = 0 THEN defaultMaxBufferSize
        ELSE config.MaxBufferSize,
     disableMaxBufferSize |-> config.DisableMaxBufferSize]


\* ------------------------------------------------- sio.Client: vocabulary
MaxGoroutines == 3        \* goroutines the client starts in a run
MaxAttempts == 1          \* largest ReconnectionAttempts configured
\* math.MaxUint32 is 2^32 - 1; 2^31 - 1 stands for it here, and the backoff's
\* attempt counter stays far below both.
MaxUint32 == 2147483647
NoClient == [noReconnection |-> FALSE, reconnectionAttempts |-> 0,
             connState |-> "none", connStateMu |-> 0, attempts |-> 0,
             eio |-> "nil", emitted |-> {}, userClosed |-> FALSE]

Init ==
    /\ conns = {}
    /\ eioOpen = [c \in Conns |-> FALSE]
    /\ namespaces = {}
    /\ nspSockets = [n \in AllNamespaces |-> {}]
    /\ rooms = {}
    /\ connSockets = [c \in Conns |-> <<>>]
    /\ connNsps = [c \in Conns |-> {}]
    /\ sock = <<>>
    /\ nextSid = 1
    /\ trace = [c \in Conns |-> <<>>]
    /\ sent = [c \in Conns |-> {}]
    /\ reordered = [c \in Conns |-> FALSE]
    /\ parseFailed = [c \in Conns |-> FALSE]
    /\ crashed = FALSE
    /\ last = [op |-> "init", conn |-> "", sid |-> "", delivered |-> <<>>,
               withAck |-> FALSE, id |-> NoID, tick |-> FALSE]
    /\ sessions = <<>>
    /\ packets = <<>>
    /\ now = 0
    /\ yeast = 0
    /\ res = NoRes
    /\ calls = <<>>
    /\ forwarded = <<>>
    /\ server = NoServer
    /\ closed = FALSE
    /\ estore = {}
    /\ esock = <<>>
    /\ transports = <<>>
    /\ noops = <<>>
    /\ ct = NoClientTransport
    /\ elast = NoELast
    /\ client = NoClient
    /\ pc = <<>>

\* Server.onEIOSocket / newServerConn: a new Engine.IO socket arrives; a
\* closed Engine.IO server accepts none.
NewServerConn(c) ==
    /\ ~crashed /\ ~closed /\ c \notin conns
    /\ conns' = conns \cup {c}
    /\ eioOpen' = [eioOpen EXCEPT ![c] = TRUE]
    /\ last' = Last("newServerConn", c, "", <<>>, FALSE, NoID)
    /\ UNCHANGED <<namespaces, nspSockets, rooms, connSockets, connNsps, sock,
                   nextSid, trace, sent, reordered, parseFailed, crashed>>
    /\ UNCHANGED <<adapterVars, engineVars, clientVars>>

\* The Engine.IO socket delivers a batch of packets to serverConn.onEIOPacket.
OnEIOPacket(c, batch) ==
    /\ ~crashed /\ c \in conns /\ eioOpen[c]
    /\ nextSid + Cardinality(Connects(batch)) <= MaxSockets + 1
    /\ Cardinality(Handed(trace[c])) + Cardinality(Connects(batch)) <= MaxPackets
    /\ LET st == onEIOPacket(State, c, batch, 1)
       IN /\ Install(st)
          /\ last' = Last("onEIOPacket", c, "", st.delivered, FALSE, NoID)
    /\ \A s \in DOMAIN sock' :
         Len(sock'[s].calls) <= MaxPackets /\ sock'[s].errors <= MaxPackets
    /\ UNCHANGED crashed

\* One goroutine started by serverConn.packet runs eio.Send.
SendGoroutine(c, i) ==
    /\ ~crashed
    /\ i \in Handed(trace[c]) \ sent[c]
    /\ sent' = [sent EXCEPT ![c] = @ \cup {i}]
    /\ reordered' = [reordered EXCEPT ![c] = @ \/ (\E j \in sent[c] : j > i)]
    /\ last' = Last("Send", c, "", <<>>, FALSE, NoID)
    /\ UNCHANGED <<conns, eioOpen, namespaces, nspSockets, rooms, connSockets,
                   connNsps, sock, nextSid, trace, parseFailed, crashed>>
    /\ UNCHANGED <<adapterVars, engineVars, clientVars>>

\* serverSocket.Emit(eventName, v...), with or without a trailing function.
\* A panic either ends the process or is recovered by the caller's goroutine.
Emit(s, eventName, withAck) ==
    /\ ~crashed /\ s \in DOMAIN sock
    /\ Cardinality(Handed(trace[sock[s].conn])) < MaxPackets
    /\ IF sendDataPacketPanics(State, s, eventName, withAck)
       THEN /\ crashed' \in BOOLEAN
            /\ last' = IF IsEventReservedForServer(eventName)
                       THEN Last("EmitReserved", sock[s].conn, s, <<>>, withAck, NoID)
                       ELSE Last("EmitPanic", sock[s].conn, s, <<>>, withAck,
                                 sock[s].ackID)
            /\ UNCHANGED <<conns, eioOpen, namespaces, nspSockets, rooms,
                           connSockets, connNsps, sock, nextSid, trace, sent,
                           reordered, parseFailed>>
            /\ UNCHANGED <<adapterVars, engineVars, clientVars>>
       ELSE /\ Install(sendDataPacket(State, s, eventName, withAck))
            /\ last' = Last("Emit", sock[s].conn, s, <<>>, withAck,
                         IF withAck THEN sock[s].ackID ELSE NoID)
            /\ UNCHANGED crashed

\* serverSocket.Disconnect(false)
Disconnect(s) ==
    /\ ~crashed /\ s \in DOMAIN sock
    /\ Cardinality(Handed(trace[sock[s].conn])) < MaxPackets
    /\ Install(onClose(sendControlPacket(State, s, "DISCONNECT"), s))
    /\ last' = Last("Disconnect", sock[s].conn, s, <<>>, FALSE, NoID)
    /\ UNCHANGED crashed

\* The Engine.IO socket closes and calls serverConn.onClose, which is empty.
EIOClose(c) ==
    /\ ~crashed /\ c \in conns /\ eioOpen[c]
    /\ eioOpen' = [eioOpen EXCEPT ![c] = FALSE]
    /\ last' = Last("onClose", c, "", <<>>, FALSE, NoID)
    /\ UNCHANGED <<conns, namespaces, nspSockets, rooms, connSockets, connNsps,
                   sock, nextSid, trace, sent, reordered, parseFailed, crashed>>
    /\ UNCHANGED <<adapterVars, engineVars, clientVars>>

Next ==
    \/ \E c \in Conns : NewServerConn(c)
    \/ \E c \in Conns, b \in Batches : OnEIOPacket(c, b)
    \/ \E c \in Conns, i \in 1..(3 * MaxPackets) : SendGoroutine(c, i)
    \/ \E s \in DOMAIN sock, w \in BOOLEAN : Emit(s, "ev", w)
    \/ \E s \in DOMAIN sock : Disconnect(s)
    \/ \E c \in Conns : EIOClose(c)

Spec == Init /\ [][Next]_vars

\* ------------------------------------------- steps of the application
\* Server.Of(namespace), called by the application.
ServerOf(n) ==
    /\ ~crashed /\ n \notin namespaces
    /\ Install(Of(State, n))
    /\ last' = Last("Of", "", "", <<>>, FALSE, NoID)
    /\ UNCHANGED crashed

\* serverSocket.On("ev", handler) with a handler of h arguments.
On(s, h) ==
    /\ ~crashed /\ s \in DOMAIN sock /\ h \notin sock[s].handlers
    /\ Install([State EXCEPT !.sock[s].handlers = @ \cup {h}])
    /\ last' = Last("On", sock[s].conn, s, <<>>, FALSE, NoID)
    /\ UNCHANGED crashed

\* The goroutine of onEvent for the i-th pending call returns, with or
\* without an error from handler.Call.
HandlerGoroutine(s, i, err) ==
    /\ ~crashed /\ s \in DOMAIN sock /\ i \in 1..Len(sock[s].calls)
    /\ Cardinality(Handed(trace[sock[s].conn])) < MaxPackets
    /\ sock[s].errors < MaxPackets
    /\ Install(handlerGoroutine(State, s, i, err))
    /\ last' = Last("handler", sock[s].conn, s, <<>>, FALSE, sock[s].calls[i][2])
    /\ UNCHANGED crashed

\* serverSocket.Join(room)
Join(s, r) ==
    /\ ~crashed /\ s \in DOMAIN sock /\ r \in Rooms \cup {s}
    /\ Install(addAll(State, s, {r}))
    /\ last' = Last("Join", sock[s].conn, s, <<>>, FALSE, NoID)
    /\ UNCHANGED crashed

\* Mutant of Leave: the socket leaves all its rooms (DeleteAll for Delete).
LeaveAll(s, r) ==
    /\ ~crashed /\ s \in DOMAIN sock /\ r \in Rooms \cup {s}
    /\ Install([leaveAll(State, s) EXCEPT !.sock[s].left = @ \/ r = s])
    /\ last' = Last("Leave", sock[s].conn, s, <<>>, FALSE, NoID)
    /\ UNCHANGED crashed

\* serverSocket.Leave(room); `left` records that the room of the socket's own
\* ID has been left this way.
Leave(s, r) ==
    /\ ~crashed /\ s \in DOMAIN sock /\ r \in Rooms \cup {s}
    /\ Install([delete(State, s, r) EXCEPT !.sock[s].left = @ \/ r = s])
    /\ last' = Last("Leave", sock[s].conn, s, <<>>, FALSE, NoID)
    /\ UNCHANGED crashed

\* Emitting: connections, inbound packets, Emit under any event name and
\* Disconnect.
NextSocket ==
    \/ \E c \in Conns : NewServerConn(c)
    \/ \E c \in Conns, f \in Frames : OnEIOPacket(c, <<f>>)
    \/ \E s \in DOMAIN sock, eventName \in EventNames, w \in BOOLEAN :
          Emit(s, eventName, w)
    \/ \E s \in DOMAIN sock : Disconnect(s)

SpecSocket == Init /\ [][NextSocket]_vars

\* Rooms: connections, CONNECT and DISCONNECT packets, Disconnect, Join and
\* Leave.
NextRooms ==
    \/ \E c \in Conns : NewServerConn(c)
    \/ \E c \in Conns, f \in InboundFor({"CONNECT", "DISCONNECT"}) :
          OnEIOPacket(c, <<f>>)
    \/ \E s \in DOMAIN sock : Disconnect(s)
    \/ \E s \in DOMAIN sock, r \in Rooms \cup DOMAIN sock : Join(s, r)
    \/ \E s \in DOMAIN sock, r \in Rooms \cup DOMAIN sock : Leave(s, r)

SpecRooms == Init /\ [][NextRooms]_vars

\* Inbound events: namespaces created by the application, handlers
\* registered with On, EVENT packets and the handler goroutines.
NextEvents ==
    \/ \E c \in Conns : NewServerConn(c)
    \/ \E n \in AllNamespaces : ServerOf(n)
    \/ \E c \in Conns, f \in InboundFor({"CONNECT"}) \cup EventFrames :
          OnEIOPacket(c, <<f>>)
    \/ \E s \in DOMAIN sock, h \in HandlerArgs : On(s, h)
    \/ \E s \in DOMAIN sock, i \in 1..MaxPackets, err \in BOOLEAN :
          HandlerGoroutine(s, i, err)

SpecEvents == Init /\ [][NextEvents]_vars

\* The loop of Server.Close over the sockets Sockets() returned.
RECURSIVE closeSockets(_, _)
closeSockets(st, ss) ==
    IF ss = {} THEN st
    ELSE LET s == CHOOSE x \in ss : TRUE
         IN closeSockets(onClose(st, s), ss \ {s})

\* Server.Close: onClose for every socket of the namespace "/", then
\* s.eio.Close(): the Engine.IO server is closed, and with it every
\* Engine.IO socket.
ServerClose ==
    /\ ~crashed
    /\ LET st == closeSockets(Of(State, "/"), nspSockets["/"])
       IN /\ namespaces' = st.namespaces
          /\ nspSockets' = st.nspSockets
          /\ rooms' = st.rooms
          /\ connSockets' = st.connSockets
          /\ sock' = st.sock
    /\ eioOpen' = [c \in DOMAIN eioOpen |-> FALSE]
    /\ closed' = TRUE
    /\ last' = Last("Close", "", "", <<>>, FALSE, NoID)
    /\ UNCHANGED <<conns, connNsps, nextSid, trace, sent, reordered, parseFailed,
                   crashed>>
    /\ UNCHANGED <<server, estore, esock, transports, noops, ct, elast>>
    /\ UNCHANGED <<adapterVars, clientVars>>

\* DISCONNECT packets addressed to a namespace or to a socket ID.
DisconnectFrames ==
    {Frame("message", "DISCONNECT", n, NoID, "") : n \in EventNamespaces}

\* Disconnecting: CONNECT and DISCONNECT packets, Disconnect(false) and
\* Server.Close.
NextDisconnect ==
    \/ \E c \in Conns : NewServerConn(c)
    \/ \E c \in Conns, f \in InboundFor({"CONNECT"}) \cup DisconnectFrames :
          OnEIOPacket(c, <<f>>)
    \/ \E s \in DOMAIN sock : Disconnect(s)
    \/ ServerClose

SpecDisconnect == Init /\ [][NextDisconnect]_vars

\* Acknowledging: two handlers of the same event, EVENT packets that reach
\* the socket, and the handler goroutines.
NextAcks ==
    \/ \E c \in Conns : NewServerConn(c)
    \/ \E c \in Conns, f \in InboundFor({"CONNECT"}) \cup EventFrames :
          OnEIOPacket(c, <<f>>)
    \/ \E s \in DOMAIN sock, h \in SameArgs : On(s, h)
    \/ \E s \in DOMAIN sock, i \in 1..MaxPackets, err \in BOOLEAN :
          HandlerGoroutine(s, i, err)

SpecAcks == Init /\ [][NextAcks]_vars

\* --------------------------------------------------- steps of the adapter
\* Time passes.
Tick ==
    /\ now < MaxTime
    /\ now' = now + 1
    /\ res' = NoRes
    /\ UNCHANGED <<sessions, packets, yeast, calls, forwarded>>
    /\ UNCHANGED <<serverVars, engineVars, clientVars>>

\* sessionAwareAdapter.PersistSession
PersistSession(session) ==
    /\ sessions' = [p \in (DOMAIN sessions) \cup {session.pid} |->
                      IF p = session.pid
                      THEN [SessionToPersist |-> session, disconnectedAt |-> now]
                      ELSE sessions[p]]
    /\ res' = NoRes
    /\ UNCHANGED <<packets, now, yeast, calls, forwarded>>
    /\ UNCHANGED <<serverVars, engineVars, clientVars>>

\* Mutant of RestoreSession: a session that is restored is deleted.
RestoreSessionEvicting(pid, offset) ==
    /\ IF pid \notin DOMAIN sessions
       THEN /\ res' = Res("RestoreSession", FALSE, pid, NoHeader, <<>>)
            /\ UNCHANGED sessions
       ELSE IF hasExpired(sessions[pid]) \/ index(packets, offset, 1) # 0
       THEN /\ sessions' = [p \in (DOMAIN sessions) \ {pid} |-> sessions[p]]
            /\ res' = Res("RestoreSession", ~hasExpired(sessions[pid]), pid,
                          NoHeader, <<>>)
       ELSE /\ res' = Res("RestoreSession", FALSE, pid, NoHeader, <<>>)
            /\ UNCHANGED sessions
    /\ UNCHANGED <<packets, now, yeast, calls, forwarded>>
    /\ UNCHANGED <<serverVars, engineVars, clientVars>>

\* sessionAwareAdapter.RestoreSession.  The session returned is a pointer to
\* the stored SessionToPersist, so MissedPackets is written to the stored one.
RestoreSession(pid, offset) ==
    /\ IF pid \notin DOMAIN sessions
       THEN /\ res' = Res("RestoreSession", FALSE, pid, NoHeader, <<>>)
            /\ UNCHANGED sessions
       ELSE IF hasExpired(sessions[pid])
       THEN /\ sessions' = [p \in (DOMAIN sessions) \ {pid} |-> sessions[p]]
            /\ res' = Res("RestoreSession", FALSE, pid, NoHeader, <<>>)
       ELSE IF index(packets, offset, 1) = 0
       THEN /\ res' = Res("RestoreSession", FALSE, pid, NoHeader, <<>>)
            /\ UNCHANGED sessions
       ELSE LET missed == missedPackets(packets, sessions[pid].SessionToPersist.rooms,
                                        index(packets, offset, 1) + 1)
                session == [sessions[pid].SessionToPersist EXCEPT !.missed = missed]
            IN /\ sessions' = [sessions EXCEPT ![pid].SessionToPersist = session]
               /\ res' = Res("RestoreSession", TRUE, pid, NoHeader, <<>>)
    /\ UNCHANGED <<packets, now, yeast, calls, forwarded>>
    /\ UNCHANGED <<serverVars, engineVars, clientVars>>

\* The two tests of Broadcast on the header.
isEventPacket(header) == header.type = "EVENT"

\* Mutant of withoutAcknowledgement: every header counts as one without an
\* ack ID.
withoutAcknowledgementAlways(header) == TRUE

withoutAcknowledgement(header) == header.id = NoID

\* sessionAwareAdapter.Broadcast: `res` holds what inMemoryAdapter.Broadcast
\* is called with.
Broadcast(header, v, opts) ==
    /\ IF isEventPacket(header) /\ withoutAcknowledgement(header)
       THEN /\ yeast < MaxBuffered
            /\ yeast' = yeast + 1
            /\ packets' = Append(packets, [id |-> yeast + 1, opts |-> opts,
                                           emittedAt |-> now,
                                           data |-> Append(v, yeast + 1)])
            /\ res' = Res("Broadcast", FALSE, "", header, Append(v, yeast + 1))
       ELSE /\ res' = Res("Broadcast", FALSE, "", header, v)
            /\ UNCHANGED <<packets, yeast>>
    /\ UNCHANGED <<sessions, now, calls, forwarded>>
    /\ UNCHANGED <<serverVars, engineVars, clientVars>>

\* One pass of sessionAwareAdapter.cleaner after its sleep.
Cleaner ==
    /\ sessions' = [p \in {q \in DOMAIN sessions : ~hasExpired(sessions[q])} |->
                      sessions[p]]
    /\ packets' = cleanPackets(packets, Len(packets))
    /\ res' = NoRes
    /\ UNCHANGED <<now, yeast, calls, forwarded>>
    /\ UNCHANGED <<serverVars, engineVars, clientVars>>

NextAdapter ==
    \/ Tick
    \/ \E session \in SessionsToPersist : PersistSession(session)
    \/ \E pid \in PIDs, offset \in Offsets : RestoreSession(pid, offset)
    \/ \E header \in Headers, opts \in BroadcastOpts : Broadcast(header, Payload, opts)
    \/ Cleaner

SpecAdapter == Init /\ [][NextAdapter]_vars

\* ----------------------------------- concurrent calls of Broadcast
\* A call of Broadcast that runs beside others: `at` is "forward" between
\* a.mu.Unlock() and the call of inMemoryAdapter.Broadcast, "done" after it.
Call(a, header, v, opts) == [at |-> a, header |-> header, v |-> v, opts |-> opts]

\* Mutant of buffered: the ID is generated in one critical section and the
\* packet appended in another, and a concurrent call appends in between.
bufferedInTwoSections(pkts, p) ==
    IF pkts = <<>> THEN <<p>>
    ELSE SubSeq(pkts, 1, Len(pkts) - 1) \o <<p, pkts[Len(pkts)]>>

\* a.packets = append(a.packets, packet)
buffered(pkts, p) == Append(pkts, p)

\* Broadcast up to a.mu.Unlock(): a new call enters; when the header
\* qualifies it takes the lock, draws the ID, appends it to v and buffers
\* the packet, all before any other holder of a.mu runs.
BroadcastEnter(header, v, opts) ==
    /\ Len(calls) < MaxCalls
    /\ IF isEventPacket(header) /\ withoutAcknowledgement(header)
       THEN /\ yeast < MaxBuffered
            /\ yeast' = yeast + 1
            /\ packets' = buffered(packets, [id |-> yeast + 1, opts |-> opts,
                                             emittedAt |-> now,
                                             data |-> Append(v, yeast + 1)])
            /\ calls' = Append(calls, Call("forward", header, Append(v, yeast + 1), opts))
       ELSE /\ calls' = Append(calls, Call("forward", header, v, opts))
            /\ UNCHANGED <<packets, yeast>>
    /\ res' = NoRes
    /\ UNCHANGED <<sessions, now, forwarded>>
    /\ UNCHANGED <<serverVars, engineVars, clientVars>>

\* The last line of Broadcast: a.inMemoryAdapter.Broadcast(header, v, opts),
\* outside the lock, by whichever call gets there first.
BroadcastForward(g) ==
    /\ calls[g].at = "forward"
    /\ calls' = [calls EXCEPT ![g].at = "done"]
    /\ forwarded' = Append(forwarded, calls[g])
    /\ res' = Res("Broadcast", FALSE, "", calls[g].header, calls[g].v)
    /\ UNCHANGED <<sessions, packets, now, yeast>>
    /\ UNCHANGED <<serverVars, engineVars, clientVars>>

NextBroadcast ==
    \/ Tick
    \/ \E header \in Headers, opts \in BroadcastOpts : BroadcastEnter(header, Payload, opts)
    \/ \E g \in DOMAIN calls : BroadcastForward(g)
    \/ Cleaner

SpecBroadcast == Init /\ [][NextBroadcast]_vars

\* ----------------------------------- the recipients of a broadcast
\* BroadcastOptions with the sockets excepted by ID beside the rooms.
RecipientOpts ==
    [rooms : {{}, {"r1"}}, except : {{}, {"r1"}}, exceptSockets : {{}, {"s1"}}]
EventHeader == [type |-> "EVENT", id |-> NoID]

\* The recipient computation of the in-memory adapter for one connected
\* socket: the rooms-union when opts.rooms is non-empty, else every socket;
\* less the sockets whose rooms meet opts.except; less opts.except_sockets.
isRecipient(sid, socketRooms, opts) ==
    /\ opts.rooms = {} \/ socketRooms \cap opts.rooms # {}
    /\ socketRooms \cap opts.except = {}
    /\ sid \notin opts.exceptSockets

\* Sessions are persisted and restored between broadcasts of every kind.
NextInclude ==
    \/ \E session \in SessionsToPersist : PersistSession(session)
    \/ \E pid \in PIDs, offset \in Offsets : RestoreSession(pid, offset)
    \/ \E opts \in RecipientOpts : Broadcast(EventHeader, Payload, opts)

SpecInclude == Init /\ [][NextInclude]_vars

\* ------------------------------------------------- Engine.IO: operators
EState == [esock |-> esock, transports |-> transports, estore |-> estore]

InstallE(e) ==
    /\ esock' = e.esock
    /\ transports' = e.transports
    /\ estore' = e.estore

newTransport(name, sid, callbacks, timer) ==
    [name |-> name, sid |-> sid, closed |-> FALSE, callbacks |-> callbacks,
     done |-> FALSE, timer |-> timer, timedOut |-> FALSE]

newEngineSocket(t) ==
    [t |-> t, closed |-> FALSE, onClose |-> <<>>, clientOnClose |-> <<>>]

\* What the client's OnClose receives when the server side closes with
\* `reason`: a close by the server reaches the client as a closed transport.
clientReason(reason) ==
    IF reason = "forced close" THEN "transport close" ELSE reason

\* serverSocket.close: a once-fire gate; the transport is discarded, the
\* socket leaves the estore and the OnClose callbacks run.
socketClose(e, sid, reason, err) ==
    IF e.esock[sid].closed THEN e
    ELSE [e EXCEPT !.esock[sid].closed = TRUE,
                   !.esock[sid].onClose = Append(@, [reason |-> reason, err |-> err]),
                   !.esock[sid].clientOnClose =
                        Append(@, [reason |-> clientReason(reason), err |-> err]),
                   !.transports[e.esock[sid].t].closed = TRUE,
                   !.estore = @ \ {sid}]

\* ServerTransport.Close: closes the carrier and reports to whoever holds
\* the transport's callbacks; maybeUpgrade sets no onClose callback.
transportClose(e, t) ==
    IF e.transports[t].closed THEN e
    ELSE LET e1 == [e EXCEPT !.transports[t].closed = TRUE]
         IN IF e.transports[t].callbacks = "socket"
            THEN socketClose(e1, e.transports[t].sid, "transport close", FALSE)
            ELSE e1

\* The transport's reader rejects a frame longer than its buffer limit.
transportError(e, t) ==
    LET e1 == [e EXCEPT !.transports[t].closed = TRUE]
    IN IF e.transports[t].callbacks = "socket"
       THEN socketClose(e1, e.transports[t].sid, "transport error", TRUE)
       ELSE e1

\* serverSocket.upgradeTo: the old transport is discarded, the socket's
\* callbacks are set on the new transport, which becomes the active one.
upgradeTo(e, sid, t) ==
    [e EXCEPT !.transports[e.esock[sid].t].closed = TRUE,
              !.transports[t].callbacks = "socket",
              !.esock[sid].t = t]

\* socketStore.closeAll: ServerSocket.Close on every socket of the estore.
RECURSIVE closeAll(_, _)
closeAll(e, sids) ==
    IF sids = {} THEN e
    ELSE LET sid == CHOOSE x \in sids : TRUE
         IN closeAll(socketClose(e, sid, "forced close", FALSE), sids \ {sid})

\* serverSocket.Send: the packet is written on the transport the socket
\* holds when Send runs.
socketSend(sid, type) ==
    IF esock[sid].closed \/ transports[esock[sid].t].closed THEN {}
    ELSE {<<esock[sid].t, type>>}

tooLong(len) == server.maxBufferSize # 0 /\ len > server.maxBufferSize

\* ----------------------------------------------------- Engine.IO: steps
\* The application constructs the server.
StartServer(config) ==
    /\ server = NoServer
    /\ server' = NewServer(config)
    /\ elast' = ELast("NewServer", 0, NoCode, 0, "", {}, <<>>, FALSE)
    /\ UNCHANGED <<closed, estore, esock, transports, noops, ct>>
    /\ UNCHANGED <<serverVars, adapterVars, clientVars>>

\* Server.Run
Run ==
    /\ server # NoServer
    /\ elast' = ELast("Run", 0, NoCode, 0, "", {}, <<>>, closed)
    /\ UNCHANGED <<server, closed, estore, esock, transports, noops, ct>>
    /\ UNCHANGED <<serverVars, adapterVars, clientVars>>

\* A response that changes nothing on the server.
Answer(r, env, status, code) ==
    /\ elast' = [ELast("ServeHTTP", status, code, 0, "", {}, <<>>, FALSE)
                    EXCEPT !.req = r, !.env = env]
    /\ UNCHANGED <<estore, esock, transports, noops>>

\* Mutant of handleHandshake: the transport name is looked at before the
\* method.
handleHandshakeTransportFirst(r, env) ==
    IF r.transport \notin {"polling", "websocket"}
    THEN Answer(r, env, 400, ErrorUnknownTransport)
    ELSE IF r.method # "GET" THEN Answer(r, env, 400, ErrorBadHandshakeMethod)
    ELSE IF env = "forbidden" THEN Answer(r, env, 403, NoCode)
    ELSE IF env = "sid error" THEN Answer(r, env, 500, NoCode)
    ELSE IF env = "handshake error" THEN Answer(r, env, 0, NoCode)
    ELSE LET sid == SIDNames[Cardinality(DOMAIN esock) + 1]
             t == Len(transports) + 1
         IN /\ Cardinality(DOMAIN esock) < MaxEngineSockets
            /\ Len(transports) < MaxTransports
            /\ transports' = Append(transports,
                                newTransport(r.transport, sid, "socket", "none"))
            /\ esock' = [x \in DOMAIN esock \cup {sid} |->
                           IF x = sid THEN newEngineSocket(t) ELSE esock[x]]
            /\ noops' = [x \in DOMAIN noops \cup {sid} |->
                           IF x = sid THEN 0 ELSE noops[x]]
            /\ estore' = estore \cup {sid}
            /\ elast' = [ELast("ServeHTTP", 200, NoCode, 0, sid,
                               {<<t, "OPEN">>}, <<>>, FALSE)
                            EXCEPT !.req = r, !.env = env]

\* Server.handleHandshake
handleHandshake(r, env) ==
    IF r.method # "GET" THEN Answer(r, env, 400, ErrorBadHandshakeMethod)
    ELSE IF env = "forbidden" THEN Answer(r, env, 403, NoCode)
    ELSE IF env = "sid error" THEN Answer(r, env, 500, NoCode)
    ELSE IF r.transport \notin {"polling", "websocket"}
    THEN Answer(r, env, 400, ErrorUnknownTransport)
    ELSE IF env = "handshake error" THEN Answer(r, env, 0, NoCode)
    ELSE LET sid == SIDNames[Cardinality(DOMAIN esock) + 1]
             t == Len(transports) + 1
         IN /\ Cardinality(DOMAIN esock) < MaxEngineSockets
            /\ Len(transports) < MaxTransports
            /\ transports' = Append(transports,
                                newTransport(r.transport, sid, "socket", "none"))
            /\ esock' = [x \in DOMAIN esock \cup {sid} |->
                           IF x = sid THEN newEngineSocket(t) ELSE esock[x]]
            /\ noops' = [x \in DOMAIN noops \cup {sid} |->
                           IF x = sid THEN 0 ELSE noops[x]]
            /\ estore' = estore \cup {sid}
            /\ elast' = [ELast("ServeHTTP", 200, NoCode, 0, sid,
                               {<<t, "OPEN">>}, <<>>, FALSE)
                            EXCEPT !.req = r, !.env = env]

\* Mutant of maybeUpgrade: the new transport is given the socket's callbacks
\* at once, before any UPGRADE.
maybeUpgradeAuthoritative(r, env, sid) ==
    IF r.transport # "websocket" THEN Answer(r, env, 400, ErrorBadRequest)
    ELSE IF env = "handshake error" THEN Answer(r, env, 0, NoCode)
    ELSE /\ Len(transports) < MaxTransports
         /\ transports' = Append(transports,
                             newTransport("websocket", sid, "socket", "select"))
         /\ elast' = [ELast("ServeHTTP", 101, NoCode, 0, "", {}, <<>>, FALSE)
                         EXCEPT !.req = r, !.env = env]
         /\ UNCHANGED <<estore, esock, noops>>

\* Server.maybeUpgrade, up to the start of the timeout goroutine.
maybeUpgrade(r, env, sid) ==
    IF r.transport # "websocket" THEN Answer(r, env, 400, ErrorBadRequest)
    ELSE IF env = "handshake error" THEN Answer(r, env, 0, NoCode)
    ELSE /\ Len(transports) < MaxTransports
         /\ transports' = Append(transports,
                             newTransport("websocket", sid, "probe", "select"))
         /\ elast' = [ELast("ServeHTTP", 101, NoCode, 0, "", {}, <<>>, FALSE)
                         EXCEPT !.req = r, !.env = env]
         /\ UNCHANGED <<estore, esock, noops>>

\* Mutant of ServeHTTP: the server does not look at its closed channel.
ServeHTTPWhenClosed(r, env) ==
    /\ server # NoServer
    /\ IF Atoi(r.EIO).err THEN Answer(r, env, 400, ErrorUnsupportedProtocolVersion)
       ELSE IF Atoi(r.EIO).n # ProtocolVersion
       THEN Answer(r, env, 400, ErrorUnsupportedProtocolVersion)
       ELSE IF r.sid = "" THEN handleHandshake(r, env)
       ELSE IF r.sid \notin estore THEN Answer(r, env, 400, ErrorUnknownSID)
       ELSE IF transports[esock[r.sid].t].name # r.transport
       THEN maybeUpgrade(r, env, r.sid)
       ELSE /\ elast' = [ELast("ServeHTTP", 200, NoCode, esock[r.sid].t, "",
                               {}, <<>>, FALSE)
                            EXCEPT !.req = r, !.env = env]
            /\ UNCHANGED <<estore, esock, transports, noops>>
    /\ UNCHANGED <<server, closed, ct>>
    /\ UNCHANGED <<serverVars, adapterVars, clientVars>>

\* Server.ServeHTTP
ServeHTTP(r, env) ==
    /\ server # NoServer
    /\ IF closed THEN Answer(r, env, 418, NoCode)
       ELSE IF Atoi(r.EIO).err THEN Answer(r, env, 400, ErrorUnsupportedProtocolVersion)
       ELSE IF Atoi(r.EIO).n # ProtocolVersion
       THEN Answer(r, env, 400, ErrorUnsupportedProtocolVersion)
       ELSE IF r.sid = "" THEN handleHandshake(r, env)
       ELSE IF r.sid \notin estore THEN Answer(r, env, 400, ErrorUnknownSID)
       ELSE IF transports[esock[r.sid].t].name # r.transport
       THEN maybeUpgrade(r, env, r.sid)
       ELSE /\ elast' = [ELast("ServeHTTP", 200, NoCode, esock[r.sid].t, "",
                               {}, <<>>, FALSE)
                            EXCEPT !.req = r, !.env = env]
            /\ UNCHANGED <<estore, esock, transports, noops>>
    /\ UNCHANGED <<server, closed, ct>>
    /\ UNCHANGED <<serverVars, adapterVars, clientVars>>

\* The timeout goroutine of maybeUpgrade: `case <-done`.
TimerDone(t) ==
    /\ transports[t].timer = "select" /\ transports[t].done
    /\ transports' = [transports EXCEPT ![t].timer = "returned"]
    /\ elast' = ELast("TimerDone", 0, NoCode, t, "", {}, <<>>, FALSE)
    /\ UNCHANGED <<server, closed, estore, esock, noops, ct>>
    /\ UNCHANGED <<serverVars, adapterVars, clientVars>>

\* The timeout goroutine: `case <-time.After(s.upgradeTimeout)`. When both
\* channels are ready select takes either case.
TimerExpire(t) ==
    /\ transports[t].timer = "select"
    /\ transports' = [transports EXCEPT ![t].timer = "expired",
                                       ![t].timedOut = ~transports[t].done]
    /\ elast' = ELast("TimerExpire", 0, NoCode, t, "", {}, <<>>, FALSE)
    /\ UNCHANGED <<server, closed, estore, esock, noops, ct>>
    /\ UNCHANGED <<serverVars, adapterVars, clientVars>>

\* The timeout goroutine: t.Close() and s.onError.
TimerClose(t) ==
    /\ transports[t].timer = "expired"
    /\ InstallE([transportClose(EState, t) EXCEPT !.transports[t].timer = "closed"])
    /\ elast' = ELast("TimerClose", 0, NoCode, t, "", {}, <<>>, TRUE)
    /\ UNCHANGED <<server, closed, noops, ct>>
    /\ UNCHANGED <<serverVars, adapterVars, clientVars>>

\* The onPacket closure of maybeUpgrade.
probeOnPacket(t, type) ==
    LET sid == transports[t].sid
    IN CASE type = "PING" ->
              /\ noops[sid] < MaxNoops
              /\ noops' = [noops EXCEPT ![sid] = @ + 1]
              /\ elast' = ELast("onPacket", 0, NoCode, t, "", {<<t, "PONG">>},
                                <<>>, FALSE)
              /\ UNCHANGED <<estore, esock, transports>>
         [] type = "UPGRADE" ->
              /\ InstallE(upgradeTo([EState EXCEPT !.transports[t].done = TRUE],
                                    sid, t))
              /\ elast' = ELast("onPacket", 0, NoCode, t, "", {}, <<>>, FALSE)
              /\ UNCHANGED noops
         [] OTHER ->
              /\ InstallE(transportClose(EState, t))
              /\ elast' = ELast("onPacket", 0, NoCode, t, "", {}, <<>>, TRUE)
              /\ UNCHANGED noops

\* A frame arrives on an open transport: on polling in the body of a POST
\* that ServeHTTP handed to the transport, on websocket in the read loop.
OnFrame(t, type, len) ==
    /\ ~transports[t].closed
    /\ IF tooLong(len)
       THEN /\ InstallE(transportError(EState, t))
            /\ elast' = ELast("OnFrame", 0, NoCode, t, "", {}, <<>>, TRUE)
            /\ UNCHANGED noops
       ELSE IF transports[t].callbacks = "probe" THEN probeOnPacket(t, type)
       ELSE /\ elast' = ELast("OnFrame", 0, NoCode, t, "", {},
                              IF type = "MESSAGE"
                              THEN <<transports[t].sid, len>> ELSE <<>>, FALSE)
            /\ UNCHANGED <<estore, esock, transports, noops>>
    /\ UNCHANGED <<server, closed, ct>>
    /\ UNCHANGED <<serverVars, adapterVars, clientVars>>

\* The goroutine started by `go socket.Send(noop)` runs.
SendNoop(sid) ==
    /\ noops[sid] > 0
    /\ noops' = [noops EXCEPT ![sid] = @ - 1]
    /\ elast' = ELast("SendNoop", 0, NoCode, 0, sid, socketSend(sid, "NOOP"),
                      <<>>, FALSE)
    /\ UNCHANGED <<server, closed, estore, esock, transports, ct>>
    /\ UNCHANGED <<serverVars, adapterVars, clientVars>>

\* The application sends a packet on a socket: ServerSocket.Send.
Send(sid) ==
    /\ elast' = ELast("Send", 0, NoCode, 0, sid, socketSend(sid, "MESSAGE"),
                      <<>>, FALSE)
    /\ UNCHANGED <<server, closed, estore, esock, transports, noops, ct>>
    /\ UNCHANGED <<serverVars, adapterVars, clientVars>>

\* Mutant of Close: the channel is closed, the sockets are left alone.
CloseWithoutCloseAll ==
    /\ server # NoServer
    /\ closed' = TRUE
    /\ elast' = ELast("Close", 0, NoCode, 0, "", {}, <<>>, FALSE)
    /\ UNCHANGED <<server, estore, esock, transports, noops, ct>>
    /\ UNCHANGED <<serverVars, adapterVars, clientVars>>

\* Server.Close
Close ==
    /\ server # NoServer
    /\ closed' = TRUE
    /\ InstallE(closeAll(EState, estore))
    /\ elast' = ELast("Close", 0, NoCode, 0, "", {}, <<>>, FALSE)
    /\ UNCHANGED <<server, noops, ct>>
    /\ UNCHANGED <<serverVars, adapterVars, clientVars>>

\* ------------------------------ Engine.IO: the websocket ClientTransport
\* What websocket.IsCloseError(err, expectedCloseCodes...) leaves of err.
ErrKinds == {"nil", "expected close", "other"}
\* Mutant of closeErr: the error is handed on as it came.
closeErrKept(err) == err

closeErr(err) == IF err = "expected close" THEN "nil" ELSE err

\* Mutant of ctClose: no once.
ctCloseAlways(t, err) ==
    [t EXCEPT !.once = TRUE,
              !.conn = IF @ = "nil" THEN @ ELSE "closed",
              !.onClose = Append(@, closeErr(err))]

\* ClientTransport.close: once.Do; OnClose is deferred, the conn is closed.
ctClose(t, err) ==
    IF t.once THEN t
    ELSE [t EXCEPT !.once = TRUE,
                   !.conn = IF @ = "nil" THEN @ ELSE "closed",
                   !.onClose = Append(@, closeErr(err))]

\* ClientTransport.Discard: the same once; no OnClose.
ctDiscard(t) ==
    IF t.once THEN t
    ELSE [t EXCEPT !.once = TRUE, !.conn = IF @ = "nil" THEN @ ELSE "closed"]

\* A client dials: the transport has a conn.
Dial ==
    /\ ct = NoClientTransport
    /\ ct' = [ct EXCEPT !.conn = "open"]
    /\ elast' = ELast("Dial", 0, NoCode, 0, "", {}, <<>>, FALSE)
    /\ UNCHANGED <<server, closed, estore, esock, transports, noops>>
    /\ UNCHANGED <<serverVars, adapterVars, clientVars>>

\* ClientTransport.Close
ClientClose ==
    /\ ct' = ctClose(ct, "nil")
    /\ elast' = ELast("ClientClose", 0, NoCode, 0, "", {}, <<>>, FALSE)
    /\ UNCHANGED <<server, closed, estore, esock, transports, noops>>
    /\ UNCHANGED <<serverVars, adapterVars, clientVars>>

\* ClientTransport.Discard
ClientDiscard ==
    /\ ct' = ctDiscard(ct)
    /\ elast' = ELast("ClientDiscard", 0, NoCode, 0, "", {}, <<>>, FALSE)
    /\ UNCHANGED <<server, closed, estore, esock, transports, noops>>
    /\ UNCHANGED <<serverVars, adapterVars, clientVars>>

\* ClientTransport.Run or Send meets an error: t.close(err).
ClientError(err) ==
    /\ ct.conn # "nil"
    /\ ct' = ctClose(ct, err)
    /\ elast' = ELast("ClientError", 0, NoCode, 0, "", {}, <<>>, TRUE)
    /\ UNCHANGED <<server, closed, estore, esock, transports, noops>>
    /\ UNCHANGED <<serverVars, adapterVars, clientVars>>

\* Requests of a well-behaved client: a handshake on either transport and
\* the websocket request that starts an upgrade (or reaches the transport).
DefaultConfig == [MaxBufferSize |-> 0, DisableMaxBufferSize |-> FALSE]
ClientRequests ==
    {r \in Requests : r.method = "GET" /\ r.EIO = "4" /\ r.sid # "bogus"
                      /\ r.transport = (IF r.sid = "" THEN r.transport ELSE "websocket")
                      /\ r.transport # "UFO"}

\* Upgrades: probing, commit, timeout, abort, and the server's Close.
NextUpgrade ==
    \/ StartServer(DefaultConfig)
    \/ \E r \in ClientRequests : ServeHTTP(r, "ok")
    \/ \E t \in DOMAIN transports : TimerDone(t)
    \/ \E t \in DOMAIN transports : TimerExpire(t)
    \/ \E t \in DOMAIN transports : TimerClose(t)
    \/ \E t \in DOMAIN transports, type \in PacketTypes : OnFrame(t, type, 1)
    \/ \E sid \in DOMAIN esock : SendNoop(sid)
    \/ \E sid \in DOMAIN esock : Send(sid)
    \/ Close

SpecUpgrade == Init /\ [][NextUpgrade]_vars

\* The HTTP surface: any request under any environment, Run and Close.
NextHTTP ==
    \/ StartServer(DefaultConfig)
    \/ Run
    \/ \E r \in Requests, env \in Envs : ServeHTTP(r, env)
    \/ Close

SpecHTTP == Init /\ [][NextHTTP]_vars

\* Closing: the server with its sockets, and a client transport.
NextClose ==
    \/ StartServer(DefaultConfig)
    \/ \E r \in ClientRequests : ServeHTTP(r, "ok")
    \/ Close
    \/ Dial
    \/ ClientClose
    \/ ClientDiscard
    \/ \E err \in {"expected close", "other"} : ClientError(err)

SpecClose == Init /\ [][NextClose]_vars

\* The buffer limit: any configuration, frames of either length.
NextFrames ==
    \/ \E config \in Configs : StartServer(config)
    \/ \E r \in ClientRequests : ServeHTTP(r, "ok")
    \/ \E t \in DOMAIN transports, len \in FrameLens : OnFrame(t, "MESSAGE", len)
    \/ \E sid \in DOMAIN esock : Send(sid)

SpecFrames == Init /\ [][NextFrames]_vars

\* ------------------------------------------------------------ sio.Client
\* Goroutines of the client are numbered in the order they are started; a
\* goroutine is at a lock, in a body, or done. connStateMu is 0 when free,
\* else the number of the goroutine that holds it. eioMu and parserMu are
\* only taken while connStateMu is held or by callers that take no other
\* lock, so they never make a goroutine wait for long and are left out.
ClientConfigs == [NoReconnection : BOOLEAN, ReconnectionAttempts : 0..MaxAttempts]

\* NewClient: the zero value of connState is clientConnStateConnecting.
\* `userClosed` records that the application has called Disconnect and has
\* not called Connect since.
NewClient(config) ==
    [noReconnection |-> config.NoReconnection,
     reconnectionAttempts |-> config.ReconnectionAttempts,
     connState |-> "connecting", connStateMu |-> 0, attempts |-> 0,
     eio |-> "nil", emitted |-> {}, userClosed |-> FALSE]

goroutine(at, caller, again) == [at |-> at, caller |-> caller, again |-> again]

\* The application constructs the client.
StartClient(config) ==
    /\ client = NoClient
    /\ client' = NewClient(config)
    /\ UNCHANGED pc
    /\ UNCHANGED <<serverVars, adapterVars, engineVars>>

\* Client.Connect: `go c.connect()`.
Connect ==
    /\ client # NoClient /\ Len(pc) < MaxGoroutines
    /\ pc' = Append(pc, goroutine("connect.lock", "go", FALSE))
    /\ client' = [client EXCEPT !.userClosed = FALSE]
    /\ UNCHANGED <<serverVars, adapterVars, engineVars>>

\* Client.connect, c.connStateMu.Lock(): waits while the mutex is held,
\* whoever holds it.
ConnectLock(g) ==
    /\ pc[g].at = "connect.lock" /\ client.connStateMu = 0
    /\ client' = [client EXCEPT !.connStateMu = g]
    /\ pc' = [pc EXCEPT ![g].at = "connect.body"]
    /\ UNCHANGED <<serverVars, adapterVars, engineVars>>

\* The rest of Client.reconnect once connect has returned `err` to it.
afterConnect(c, err) ==
    IF err
    THEN [c EXCEPT !.emitted = @ \cup {"reconnect"}, !.connState = "disconnected"]
    ELSE [c EXCEPT !.attempts = 0, !.emitted = @ \cup {"reconnect"}]

\* Client.connect after the lock, up to its return (the deferred Unlock) and,
\* when Client.reconnect called it, on to what reconnect does with the error.
ConnectBody(g, dialed) ==
    /\ pc[g].at = "connect.body"
    /\ LET connected == client.connState = "connected"
           err == ~connected /\ ~dialed
           c1 == IF connected THEN client
                 ELSE IF dialed
                 THEN [client EXCEPT !.connState = "connecting", !.eio = "open",
                                     !.emitted = @ \cup {"open"}]
                 ELSE [client EXCEPT !.connState = "disconnected",
                                     !.emitted = @ \cup {"error"}]
           c2 == [c1 EXCEPT !.connStateMu = 0]
       IN IF pc[g].caller = "reconnect"
          THEN /\ client' = afterConnect(c2, err)
               /\ pc' = [pc EXCEPT ![g] = IF err
                                          THEN goroutine("reconnect.body", "go", TRUE)
                                          ELSE goroutine("done", "go", FALSE)]
          ELSE /\ client' = c2
               /\ pc' = [pc EXCEPT ![g].at = "done"]
    /\ UNCHANGED <<serverVars, adapterVars, engineVars>>

\* Client.onEIOClose: Client.onClose resets the backoff, emits close and
\* starts a reconnect goroutine; onEIOClose starts another when err != nil.
OnEIOClose(err) ==
    /\ client # NoClient /\ client.eio = "open"
    /\ LET n == IF client.noReconnection THEN 0 ELSE IF err THEN 2 ELSE 1
           new == [i \in 1..n |-> goroutine("reconnect.lock", "go", FALSE)]
       IN /\ Len(pc) + n <= MaxGoroutines
          /\ pc' = pc \o new
    /\ client' = [client EXCEPT !.eio = "closed", !.attempts = 0,
                                !.emitted = @ \cup {"close"}]
    /\ UNCHANGED <<serverVars, adapterVars, engineVars>>

\* Client.reconnect(false), c.connStateMu.Lock().
ReconnectLock(g) ==
    /\ pc[g].at = "reconnect.lock" /\ client.connStateMu = 0
    /\ client' = [client EXCEPT !.connStateMu = g]
    /\ pc' = [pc EXCEPT ![g].at = "reconnect.body"]
    /\ UNCHANGED <<serverVars, adapterVars, engineVars>>

didAttemptsReachedMaxAttempts(c) ==
    c.reconnectionAttempts > 0 /\ c.attempts >= c.reconnectionAttempts

didAttemptsReachedMaxInt(c) ==
    c.reconnectionAttempts = 0 /\ c.attempts = MaxUint32

\* What reconnect releases when it returns: the deferred Unlock runs only
\* when it was not called with again = true.
reconnectReturn(c, g) ==
    IF pc[g].again THEN c ELSE [c EXCEPT !.connStateMu = 0]

\* Client.reconnect after the lock, up to its return or its call of connect.
ReconnectBody(g) ==
    /\ pc[g].at = "reconnect.body"
    /\ IF client.connState = "reconnecting"
       THEN /\ client' = reconnectReturn(client, g)
            /\ pc' = [pc EXCEPT ![g].at = "done"]
       ELSE IF didAttemptsReachedMaxAttempts(client) \/ didAttemptsReachedMaxInt(client)
       THEN /\ client' = reconnectReturn(
                            [client EXCEPT !.attempts = 0,
                                           !.emitted = @ \cup {"reconnect_failed"},
                                           !.connState = "disconnected"], g)
            /\ pc' = [pc EXCEPT ![g].at = "done"]
       ELSE /\ client' = [client EXCEPT !.connState = "reconnecting",
                                        !.attempts = @ + 1,
                                        !.emitted = @ \cup {"reconnect_attempt"}]
            /\ pc' = [pc EXCEPT ![g].at = "connect.lock", ![g].caller = "reconnect"]
    /\ UNCHANGED <<serverVars, adapterVars, engineVars>>

\* Client.Disconnect: Client.close takes connStateMu, sets the state, calls
\* onClose("forced close", nil), which resets the backoff, emits close and,
\* unless NoReconnection is set, starts `go c.reconnect(false)`; then it
\* closes the Engine.IO socket and, returning, releases the mutex.  The
\* client has dialled before, so that c.eio is not nil.
ClientDisconnect ==
    /\ client # NoClient /\ client.eio # "nil" /\ client.connStateMu = 0
    /\ LET n == IF client.noReconnection THEN 0 ELSE 1
           new == [i \in 1..n |-> goroutine("reconnect.lock", "go", FALSE)]
       IN /\ Len(pc) + n <= MaxGoroutines
          /\ pc' = pc \o new
    /\ client' = [client EXCEPT !.connState = "disconnected", !.attempts = 0,
                                !.emitted = @ \cup {"close"}, !.eio = "closed",
                                !.userClosed = TRUE]
    /\ UNCHANGED <<serverVars, adapterVars, engineVars>>

\* The client with Disconnect beside everything else.
NextClientClose ==
    \/ \E config \in ClientConfigs : StartClient(config)
    \/ Connect
    \/ \E g \in DOMAIN pc : ConnectLock(g)
    \/ \E g \in DOMAIN pc, dialed \in BOOLEAN : ConnectBody(g, dialed)
    \/ \E err \in BOOLEAN : OnEIOClose(err)
    \/ \E g \in DOMAIN pc : ReconnectLock(g)
    \/ \E g \in DOMAIN pc : ReconnectBody(g)
    \/ ClientDisconnect

SpecClientClose == Init /\ [][NextClientClose]_vars

NextClient ==
    \/ \E config \in ClientConfigs : StartClient(config)
    \/ Connect
    \/ \E g \in DOMAIN pc : ConnectLock(g)
    \/ \E g \in DOMAIN pc, dialed \in BOOLEAN : ConnectBody(g, dialed)
    \/ \E err \in BOOLEAN : OnEIOClose(err)
    \/ \E g \in DOMAIN pc : ReconnectLock(g)
    \/ \E g \in DOMAIN pc : ReconnectBody(g)

SpecClient == Init /\ [][NextClient]_vars

\* ------------------------------------------------------------------ claims
RegisteredFor(c, n) == {s \in GetAll(connSockets[c]) : sock[s].nsp = n}

Replies(s) ==
    {i \in Handed(trace[sock[s].conn]) :
        /\ trace[sock[s].conn][i].pkt.type = "CONNECT"
        /\ trace[sock[s].conn][i].pkt.data = s}

Pending(c) == Handed(trace[c]) \ sent[c]

\* C1: packets handed to one connection by successive calls reach eio.Send in
\* the order of the calls; no Send of a later packet runs before the Send of
\* an earlier one.
C1_SendInCallOrder == \A c \in Conns : ~reordered[c]

\* C2: once a socket for namespace n is registered on a connection, an inbound
\* EVENT, ACK or DISCONNECT addressed to n is handed to that socket's onPacket.
C2_DispatchedToNamespaceSocket ==
    [][\A c \in Conns, f \in InboundFor({"EVENT", "ACK", "DISCONNECT"}) :
          (OnEIOPacket(c, <<f>>) /\ RegisteredFor(c, Namespace(f)) # {})
          => \E s \in RegisteredFor(c, Namespace(f)) :
                last'.delivered = << <<s, f.type>> >>]_vars

\* C3: every accepted CONNECT yields exactly one CONNECT reply on the socket's
\* namespace carrying the socket ID; the socket is stored in the connection
\* before the reply is handed for sending, and the connection callback runs
\* after the reply has been handed.
C3_ConnectReplyOrder ==
    /\ \A s \in DOMAIN sock :
         LET tr == trace[sock[s].conn]
         IN /\ Cardinality(Replies(s)) = 1
            /\ \A i \in Replies(s) :
                 /\ tr[i].pkt.nsp = sock[s].nsp
                 /\ \E j \in 1..(i - 1) : tr[j] = Ev("set", s, NoPkt)
                 /\ \E k \in (i + 1)..Len(tr) : tr[k] = Ev("callback", s, NoPkt)
                 /\ \A k \in 1..i : tr[k] # Ev("callback", s, NoPkt)
    /\ \A c \in Conns : \A i \in Handed(trace[c]) :
         trace[c][i].pkt.type = "CONNECT" => trace[c][i].pkt.data \in DOMAIN sock

\* C3 witness: a socket was accepted and its CONNECT reply has been sent.
C3_Witness == \E s \in DOMAIN sock : Replies(s) \cap sent[sock[s].conn] # {}

\* C4: a rejected CONNECT hands exactly one CONNECT_ERROR with the error
\* message on the addressed namespace and nothing else; no socket is allocated
\* or stored in the connection or the namespace, and the Engine.IO socket
\* stays open.
C4_RejectedConnect ==
    [][\A c \in Conns, f \in InboundFor({"CONNECT"}) :
          (f.auth = "deny" /\ OnEIOPacket(c, <<f>>))
          => /\ trace'[c] = Append(trace[c],
                    Ev("hand", "", Packet("CONNECT_ERROR", Namespace(f), NoID, "rejected")))
             /\ connSockets' = connSockets
             /\ nspSockets' = nspSockets
             /\ sock' = sock
             /\ eioOpen'[c]]_vars

\* C4 witness: the CONNECT_ERROR of a rejected CONNECT has just been sent and
\* the Engine.IO socket is open.
C4_Witness ==
    \E c \in Conns : \E i \in sent[c] :
        /\ trace[c][i].pkt.type = "CONNECT_ERROR"
        /\ eioOpen[c]
        /\ last.op = "Send"

Closed(s) ==
    /\ s \notin GetAll(connSockets[sock[s].conn])
    /\ s \notin nspSockets[sock[s].nsp]
    /\ \A m \in rooms : m[2] # s

\* C5: a DISCONNECT packet for namespace n, or Disconnect(false) on n's socket,
\* removes that socket from its namespace, its rooms and the connection's
\* store, leaves every other socket as it was and keeps the Engine.IO socket
\* as it was.
C5_DisconnectRemovesOnlyThatSocket ==
    [][/\ \A c \in Conns, f \in InboundFor({"DISCONNECT"}) :
            (OnEIOPacket(c, <<f>>) /\ RegisteredFor(c, Namespace(f)) # {})
            => \E s \in RegisteredFor(c, Namespace(f)) :
                 /\ Closed(s)'
                 /\ \A t \in DOMAIN sock \ {s} : Closed(t)' = Closed(t)
                 /\ eioOpen' = eioOpen
       /\ \A s \in DOMAIN sock :
            Disconnect(s)
            => /\ Closed(s)'
               /\ \A t \in DOMAIN sock \ {s} : Closed(t)' = Closed(t)
               /\ eioOpen' = eioOpen]_vars

\* C6: once the Engine.IO socket of a connection has closed and no goroutine
\* of the connection is left to run, every socket of the connection is closed
\* and its 'disconnect' handlers have been invoked.
C6_CloseFansOut ==
    \A c \in conns :
        (~eioOpen[c] /\ Pending(c) = {})
        => \A s \in DOMAIN sock : sock[s].conn = c => (Closed(s) /\ sock[s].disconnect > 0)

\* C7: after the parser has failed on a frame of a connection, the connection
\* is terminated, and no later onEIOPacket call of the connection delivers a
\* frame to a socket or has any other effect.
C7_ParseErrorTerminates ==
    /\ [](\A c \in conns : parseFailed[c] => ~eioOpen[c])
    /\ [][\A c \in conns :
            (parseFailed[c] /\ last'.op = "onEIOPacket" /\ last'.conn = c)
            => (last'.delivered = <<>> /\ sock' = sock /\ trace' = trace)]_vars

\* C8: Emit with a trailing function stores it under the next ack ID and hands
\* one EVENT carrying that ID; Emit without one hands an EVENT with no ack ID
\* and leaves the ack table and the counter unchanged.
C8_EmitAck ==
    [][\A s \in DOMAIN sock, w \in BOOLEAN :
          Emit(s, "ev", w)
          => /\ trace'[sock[s].conn] = Append(trace[sock[s].conn],
                    Ev("hand", s, Packet("EVENT", sock[s].nsp,
                                         IF w THEN sock[s].ackID ELSE NoID, "ev")))
             /\ sock'[s].acks = IF w THEN sock[s].acks \cup {sock[s].ackID} ELSE sock[s].acks
             /\ sock'[s].ackID = IF w THEN sock[s].ackID + 1 ELSE sock[s].ackID]_vars

C10_AckOnce ==
    /\ [](\A s \in DOMAIN sock : \A i, j \in 1..Len(sock[s].ackCalled) :
             sock[s].ackCalled[i] = sock[s].ackCalled[j] => i = j)
    /\ [][\A c \in Conns, f \in InboundFor({"ACK"}) :
            (/\ OnEIOPacket(c, <<f>>)
             /\ \E s \in RegisteredFor(c, Namespace(f)) : f.id \notin sock[s].acks)
            => \E s \in RegisteredFor(c, Namespace(f)) :
                 /\ sock'[s].errors = sock[s].errors + 1
                 /\ sock'[s].ackCalled = sock[s].ackCalled
                 /\ sock'[s].acks = sock[s].acks
                 /\ eioOpen' = eioOpen]_vars

\* C11: an inbound EVENT on namespace n with ack ID k, for which the socket
\* of n has a handler, starts the handler, and once the handler returns
\* without error an ACK with ID k on n carrying the return values is handed
\* for sending; a handler started by an EVENT without ack ID hands nothing.
C11_EventAck ==
    [][/\ \A c \in Conns, f \in EventFrames :
            (/\ OnEIOPacket(c, <<f>>)
             /\ \E s \in RegisteredFor(c, Namespace(f)) : f.argc \in sock[s].handlers)
            => \E s \in RegisteredFor(c, Namespace(f)) :
                  sock'[s].calls = Append(sock[s].calls, <<f.argc, f.id>>)
       /\ \A s \in DOMAIN sock, i \in 1..MaxPackets :
            HandlerGoroutine(s, i, FALSE)
            => trace'[sock[s].conn] =
                 IF sock[s].calls[i][2] = NoID THEN trace[sock[s].conn]
                 ELSE Append(trace[sock[s].conn],
                             Ev("hand", s, Packet("ACK", sock[s].nsp,
                                                  sock[s].calls[i][2], "ret")))]_vars

C13_ArityMismatch ==
    [][\A c \in Conns, f \in EventFrames :
          (/\ OnEIOPacket(c, <<f>>)
           /\ \E s \in RegisteredFor(c, Namespace(f)) : sock[s].handlers \ {f.argc} # {})
          => \E s \in RegisteredFor(c, Namespace(f)) :
                /\ sock'[s].errors = sock[s].errors + Cardinality(sock[s].handlers \ {f.argc})
                /\ Len(sock'[s].calls) = Len(sock[s].calls)
                                          + Cardinality(sock[s].handlers \cap {f.argc})
                /\ trace' = trace
                /\ Closed(s)' = Closed(s)
                /\ eioOpen' = eioOpen]_vars

\* C14: with AcceptAnyNamespace disabled, a CONNECT to a namespace that was
\* never created on the server does not create it and yields no socket.
C14_UnknownNamespaceRejected ==
    [][\A c \in Conns, f \in InboundFor({"CONNECT"}) :
          (/\ OnEIOPacket(c, <<f>>)
           /\ ~AcceptAnyNamespace /\ Namespace(f) \notin namespaces)
          => /\ Namespace(f) \notin namespaces'
             /\ sock' = sock
             /\ connSockets' = connSockets
             /\ nspSockets' = nspSockets]_vars

Connected(s) ==
    /\ s \in GetAll(connSockets[sock[s].conn])
    /\ s \in nspSockets[sock[s].nsp]

\* C15: every connected socket with ID i in namespace n is a member of room
\* i of n.
C15_OwnRoom ==
    \A s \in DOMAIN sock : Connected(s) => <<sock[s].nsp, s, s>> \in rooms

\* C15, amended: every connected socket with ID i in namespace n is a member
\* of room i of n unless Leave(i) has been called on it.
C15_OwnRoomUnlessLeft ==
    \A s \in DOMAIN sock :
        (Connected(s) /\ ~sock[s].left) => <<sock[s].nsp, s, s>> \in rooms

\* C15 witness: a connected socket has joined and left another room, its
\* CONNECT reply has been handed, and it is still in the room of its own ID.
C15_Witness ==
    \E s \in DOMAIN sock :
        /\ Connected(s) /\ ~sock[s].left /\ Replies(s) # {}
        /\ last.op = "Leave" /\ last.sid = s
        /\ <<sock[s].nsp, s, s>> \in rooms

\* ------------------------------------------------ claims on the adapter
\* The session a successful RestoreSession has just returned.
Returned == sessions[res.pid].SessionToPersist

Stored(pid) == pid \in DOMAIN sessions

\* The disconnect time is more than maxDisconnectDuration in the past.
Expired(pid) == now - sessions[pid].disconnectedAt > maxDisconnectDuration

FoundAt(offset) == {i \in 1..Len(packets) : packets[i].id = offset}

\* The packets after position i a session with these rooms is to receive.
After(i, sessionRooms) ==
    LET Inc(p) == shouldIncludePacket(sessionRooms, p.opts)
    IN SelectSeq(SubSeq(packets, i + 1, Len(packets)), Inc)

\* C16: for a stored, unexpired session and an offset found at index i,
\* RestoreSession returns the session's SID and PID with exactly the packets
\* after i that shouldIncludePacket admits, in buffer order; at the offset of
\* the newest packet it returns no missed packet.
C16_RestoreMissedPackets ==
    [][\A pid \in PIDs, offset \in Offsets :
          (/\ RestoreSession(pid, offset)
           /\ Stored(pid) /\ ~Expired(pid) /\ FoundAt(offset) # {})
          => \E i \in FoundAt(offset) :
                /\ res'.ok /\ res'.pid = pid
                /\ Returned'.sid = sessions[pid].SessionToPersist.sid
                /\ Returned'.pid = pid
                /\ Returned'.missed = After(i, sessions[pid].SessionToPersist.rooms)
                /\ (i = Len(packets) => Returned'.missed = <<>>)]_vars

\* C16 witness: a restore has just returned two missed packets while a third
\* packet after the offset was filtered out or is the offset itself.
C16_Witness ==
    /\ res.op = "RestoreSession" /\ res.ok
    /\ Len(Returned.missed) = 2
    /\ Len(packets) = 3

\* C17: RestoreSession returns no session when none is stored under pid or
\* when the stored one has expired; the expired entry is removed, and the
\* packet buffer is unchanged in both cases.
C17_RestoreAbsentOrExpired ==
    [][\A pid \in PIDs, offset \in Offsets :
          (RestoreSession(pid, offset) /\ (~Stored(pid) \/ Expired(pid)))
          => /\ res'.op = "RestoreSession" /\ ~res'.ok
             /\ ~Stored(pid)'
             /\ \A q \in PIDs \ {pid} : Stored(q)' = Stored(q)
             /\ packets' = packets]_vars

\* C17 witness: a restore has just returned no session for a pid that is not
\* stored, at a time when a session persisted at time 0 has expired, with
\* packets in the buffer.
C17_Witness ==
    /\ res.op = "RestoreSession" /\ ~res.ok /\ ~Stored(res.pid)
    /\ now > maxDisconnectDuration
    /\ packets # <<>>

\* C18: a session is evicted when it is successfully restored: after a
\* successful RestoreSession the session is no longer stored.
C18_EvictedOnRestore ==
    [][\A pid \in PIDs, offset \in Offsets :
          (RestoreSession(pid, offset) /\ res'.ok) => ~Stored(pid)']_vars

\* C18, amended: a successful RestoreSession leaves the session stored with
\* its SID, PID, rooms and disconnect time; a restore that follows a
\* successful one for the same pid, with an offset in the buffer and before
\* the session expires, succeeds again; a session leaves the store only
\* once it has expired.
C18_RestoreKeepsSession ==
    [][/\ \A pid \in PIDs, offset \in Offsets :
            /\ (RestoreSession(pid, offset) /\ res'.ok)
               => /\ Stored(pid)'
                  /\ sessions'[pid].disconnectedAt = sessions[pid].disconnectedAt
                  /\ \A f \in {"sid", "pid", "rooms"} :
                       sessions'[pid].SessionToPersist[f]
                         = sessions[pid].SessionToPersist[f]
            /\ (/\ res.op = "RestoreSession" /\ res.ok /\ res.pid = pid
                /\ RestoreSession(pid, offset)
                /\ ~Expired(pid) /\ FoundAt(offset) # {})
               => res'.ok
       /\ \A pid \in PIDs : (Stored(pid) /\ ~Stored(pid)') => Expired(pid)]_vars

\* C18 witness: a restore has just succeeded with one missed packet out of
\* three buffered ones, and the session is still stored.
C18_Witness ==
    /\ res.op = "RestoreSession" /\ res.ok /\ Stored(res.pid)
    /\ Len(Returned.missed) = 1
    /\ Len(packets) = 3

\* C19: Broadcast buffers a packet exactly when the header is an EVENT
\* without ack ID; then a fresh offset is appended as the last element of the
\* payload that is buffered and forwarded; for any other header the buffer is
\* unchanged and the payload is forwarded as it came.
C19_BroadcastBuffers ==
    [][\A header \in Headers, opts \in BroadcastOpts :
          Broadcast(header, Payload, opts)
          => IF header.type = "EVENT" /\ header.id = NoID
             THEN /\ Len(packets') = Len(packets) + 1
                  /\ LET p == packets'[Len(packets')]
                     IN /\ packets' = Append(packets, p)
                        /\ p.id \notin 1..yeast
                        /\ p.opts = opts /\ p.emittedAt = now
                        /\ p.data = Append(Payload, p.id)
                        /\ res'.data = p.data
                        /\ res'.hdr = header
             ELSE /\ packets' = packets
                  /\ res'.data = Payload
                  /\ res'.hdr = header]_vars

\* C19 witness: a qualifying broadcast has just been buffered behind an
\* earlier one and forwarded with its offset as the last element.
C19_Witness ==
    /\ res.op = "Broadcast" /\ res.hdr = [type |-> "EVENT", id |-> NoID]
    /\ Len(packets) >= 2
    /\ res.data = Append(Payload, packets[Len(packets)].id)

\* The emission time is more than maxDisconnectDuration in the past.
Old(p) == now - p.emittedAt > maxDisconnectDuration

NotOld(p) == ~Old(p)

\* C20: after each run of the sweeper no expired session and no expired
\* packet remains stored, and every unexpired session and packet is kept in
\* its original order.
C20_SweeperDropsExpired ==
    [][Cleaner
       => /\ \A pid \in PIDs : Stored(pid)' = (Stored(pid) /\ ~Expired(pid))
          /\ \A pid \in PIDs : Stored(pid)' => sessions'[pid] = sessions[pid]
          /\ packets' = SelectSeq(packets, NotOld)]_vars

\* ------------------------------------------------------ Engine.IO claims
\* The transport was created by maybeUpgrade (a handshake starts no timer).
IsUpgrade(t) == transports[t].timer # "none"

\* The transport is open and delivers to the connection.
Authoritative(t) == ~transports[t].closed /\ transports[t].callbacks = "socket"

\* The transport the connection holds as its active one.
Active(sid) == esock[sid].t

\* C21: while a new transport is probed the connection's active transport
\* stays the old one; a PING on the new transport is answered with a PONG on
\* the new transport, and the NOOP it causes is written on the old transport,
\* never on the new one; the active transport changes only in the step that
\* receives UPGRADE on the new transport, and changes to that transport.
C21_ProbeThenSwap ==
    [][/\ \A t \in DOMAIN transports :
            (OnFrame(t, "PING", 1) /\ transports[t].callbacks = "probe")
            => /\ elast'.wire = {<<t, "PONG">>}
               /\ Active(transports[t].sid)' = Active(transports[t].sid)
       /\ elast'.op = "SendNoop"
            => \A w \in elast'.wire : w[2] = "NOOP" /\ ~IsUpgrade(w[1])
       /\ \A sid \in DOMAIN esock :
            Active(sid)' # Active(sid)
            => /\ OnFrame(Active(sid)', "UPGRADE", 1)
               /\ transports[Active(sid)'].callbacks = "probe"
               /\ transports[Active(sid)'].sid = sid]_vars

\* C22: when upgradeTimeout passes with no UPGRADE received on the new
\* transport, the connection keeps its old transport, the new transport is
\* closed once the timer has acted, and the old transport stays open for
\* as long as the connection is.
C22_TimeoutKeepsOld ==
    \A t \in DOMAIN transports :
        transports[t].timedOut
        => /\ Active(transports[t].sid) # t
           /\ transports[t].timer = "closed" => transports[t].closed
           /\ ~esock[transports[t].sid].closed
                => ~transports[Active(transports[t].sid)].closed

\* The connection swapped to the new transport.
Swapped(t) == IsUpgrade(t) /\ transports[t].callbacks = "socket"

\* The upgrade timer closed the new transport.
ClosedByTimer(t) == transports[t].timer = "closed"

\* C23: no upgrade attempt ends both ways: a transport the connection swapped
\* to is never closed by the upgrade timer, and a transport the timer closed
\* is never swapped to.
C23_ExactlyOneOutcome ==
    \A t \in DOMAIN transports : ~(Swapped(t) /\ ClosedByTimer(t))

\* C24: at most one transport of a connection is authoritative, and it is
\* the one the connection holds as active.
C24_OneAuthoritative ==
    \A sid \in DOMAIN esock :
        /\ Cardinality({t \in DOMAIN transports :
                          transports[t].sid = sid /\ Authoritative(t)}) <= 1
        /\ \A t \in DOMAIN transports :
              (transports[t].sid = sid /\ Authoritative(t)) => Active(sid) = t

\* C24 witness: an upgrade was committed while a second one is still being
\* probed: the old transport is closed, the new one authoritative.
C24_Witness ==
    \E t, u \in DOMAIN transports :
        /\ transports[t].sid = transports[u].sid /\ t # u
        /\ Swapped(t) /\ Authoritative(t)
        /\ IsUpgrade(u) /\ ~transports[u].closed /\ transports[u].callbacks = "probe"
        /\ transports[Active(transports[t].sid)].name = "websocket"

ForcedClose == [reason |-> "forced close", err |-> FALSE]

TransportError == [reason |-> "transport error", err |-> TRUE]

\* C25: once the server is closed, a request is answered with 418 whatever
\* its method and query, it creates no socket (the store stays empty and no
\* open socket exists) and reaches no transport, and Run returns an error.
C25_ClosedServer ==
    closed
    => /\ estore = {}
       /\ \A sid \in DOMAIN esock : esock[sid].closed
       /\ elast.op = "ServeHTTP"
            => /\ elast.status = 418 /\ elast.code = NoCode
               /\ elast.reached = 0 /\ elast.created = ""
       /\ elast.op = "Run" => elast.err

\* C25 witness: sockets had been created, the server was closed, and a
\* well-formed handshake request has just been answered.
C25_Witness ==
    /\ closed /\ DOMAIN esock # {}
    /\ elast.op = "ServeHTTP" /\ elast.status = 418
    /\ elast.req = [method |-> "GET", EIO |-> "4", sid |-> "",
                    transport |-> "polling"]
    /\ elast.env = "ok"

\* C26: Server.Close invokes OnClose with reason ForcedClose and a nil error
\* on every socket that is in the store when it is called, and the OnClose
\* record of a closed socket never changes afterwards: exactly once.
C26_ForcedClose ==
    [][/\ Close => \A sid \in estore : esock'[sid].onClose = <<ForcedClose>>
       /\ \A sid \in DOMAIN esock :
            esock[sid].closed => esock'[sid].onClose = esock[sid].onClose]_vars

\* C26 witness: the server has just been closed with a socket that had been
\* upgraded from polling to websocket and a socket on its first transport.
C26_Witness ==
    /\ elast.op = "Close"
    /\ \E a, b \in DOMAIN esock :
        /\ a # b
        /\ esock[a].onClose = <<ForcedClose>> /\ esock[b].onClose = <<ForcedClose>>
        /\ IsUpgrade(Active(a)) /\ ~IsUpgrade(Active(b))

\* C27: a Close of the server that is already closed, and a Close of a
\* client transport whose once has fired, change nothing and invoke no
\* OnClose; Close never waits: it can always be taken.
C27_CloseIdempotent ==
    /\ [][/\ (Close /\ closed)
               => UNCHANGED <<closed, estore, esock, transports, noops>>
          /\ (ClientClose /\ ct.once) => ct' = ct]_vars
    /\ [](server # NoServer => ENABLED Close)
    /\ [](ENABLED ClientClose)

\* C27 witness: the server is closed with a socket it closed, and Close has
\* been called on a client transport that an error had already closed.
C27_Witness ==
    /\ closed /\ \E sid \in DOMAIN esock : esock[sid].onClose = <<ForcedClose>>
    /\ elast.op = "ClientClose" /\ ct.once /\ ct.onClose = <<"other">>

BadEIO(r) == r.EIO \in {"", "x", "3"}

Is400(code) == elast.status = 400 /\ elast.code = code

\* C28: on an open server the answer to a request follows this precedence:
\* EIO missing, non-numeric or not the protocol version gives 400 with code
\* 5; else a sid not in the store gives code 1; else a sid-less request with
\* a method other than GET gives code 2; a sid-less GET with a transport
\* other than polling or websocket gives code 0; a known sid with a transport
\* name that is not the socket's and not websocket gives code 3.
C28_ErrorPrecedence ==
    (elast.op = "ServeHTTP" /\ ~closed)
    => LET r == elast.req
       IN /\ BadEIO(r) => Is400(ErrorUnsupportedProtocolVersion)
          /\ (~BadEIO(r) /\ r.sid # "" /\ r.sid \notin estore)
                => Is400(ErrorUnknownSID)
          /\ (~BadEIO(r) /\ r.sid = "" /\ r.method # "GET")
                => Is400(ErrorBadHandshakeMethod)
          /\ (~BadEIO(r) /\ r.sid = "" /\ r.method = "GET"
                /\ r.transport \notin {"polling", "websocket"})
                => Is400(ErrorUnknownTransport)
          /\ (~BadEIO(r) /\ r.sid \in estore
                /\ transports[Active(r.sid)].name # r.transport
                /\ r.transport # "websocket")
                => Is400(ErrorBadRequest)

\* C28 amended: the same precedence, where the sid-less GET with an unknown
\* transport gives code 0 only if the authenticator accepted the request
\* and a sid was generated: a refused request gets 403, a failed sid 500.
C28_ErrorPrecedenceAfterAuth ==
    (elast.op = "ServeHTTP" /\ ~closed)
    => LET r == elast.req
       IN /\ BadEIO(r) => Is400(ErrorUnsupportedProtocolVersion)
          /\ (~BadEIO(r) /\ r.sid # "" /\ r.sid \notin estore)
                => Is400(ErrorUnknownSID)
          /\ (~BadEIO(r) /\ r.sid = "" /\ r.method # "GET")
                => Is400(ErrorBadHandshakeMethod)
          /\ (~BadEIO(r) /\ r.sid = "" /\ r.method = "GET"
                /\ r.transport \notin {"polling", "websocket"})
                => CASE elast.env = "forbidden" ->
                          elast.status = 403 /\ elast.code = NoCode
                     [] elast.env = "sid error" ->
                          elast.status = 500 /\ elast.code = NoCode
                     [] OTHER -> Is400(ErrorUnknownTransport)
          /\ (~BadEIO(r) /\ r.sid \in estore
                /\ transports[Active(r.sid)].name # r.transport
                /\ r.transport # "websocket")
                => Is400(ErrorBadRequest)

\* C28 witness: with sockets in the store, a sid-less GET with an unknown
\* transport that the authenticator accepted has been answered with code 0.
C28_Witness ==
    /\ ~closed /\ estore # {}
    /\ elast.op = "ServeHTTP" /\ Is400(ErrorUnknownTransport)
    /\ elast.req.sid = "" /\ elast.req.transport = "UFO" /\ elast.env = "ok"

\* C29: a frame arriving on a connection's transport closes the connection
\* with reason TransportError and a non-nil error, on the server and on the
\* client, when the limit is enabled and the frame is longer than
\* maxBufferSize; it is delivered otherwise, and with DisableMaxBufferSize
\* it is delivered whatever its length and the configured MaxBufferSize.
C29_BufferLimit ==
    [][\A t \in DOMAIN transports, len \in FrameLens :
          (OnFrame(t, "MESSAGE", len) /\ transports[t].callbacks = "socket")
          => LET sid == transports[t].sid
             IN IF ~server.disableMaxBufferSize /\ len > server.maxBufferSize
                THEN /\ esock'[sid].closed /\ sid \notin estore'
                     /\ esock'[sid].onClose = <<TransportError>>
                     /\ esock'[sid].clientOnClose = <<TransportError>>
                ELSE /\ elast'.delivered = <<sid, len>>
                     /\ esock'[sid] = esock[sid]]_vars

\* C29 witness: a frame longer than the configured limit has just closed a
\* connection on the server and on the client.
C29_Witness ==
    /\ elast.op = "OnFrame" /\ elast.err
    /\ ~server.disableMaxBufferSize /\ server.maxBufferSize = 1
    /\ \E sid \in DOMAIN esock :
          /\ esock[sid].onClose = <<TransportError>>
          /\ esock[sid].clientOnClose = <<TransportError>>

\* ---------------------------------------------------------- client claims
\* The goroutine waits for a mutex that it holds itself: it waits forever.
BlockedOnOwnLock(g) ==
    pc[g].at \in {"connect.lock", "reconnect.lock"} /\ client.connStateMu = g

\* C30: with reconnection enabled and ReconnectionAttempts = N > 0 the
\* reconnect procedure never blocks on a lock of its own, it makes at most N
\* attempts, and once reconnect_failed is emitted and the goroutines are done
\* the backoff is reset and the client is disconnected.
C30_ReconnectTerminates ==
    (client # NoClient /\ ~client.noReconnection /\ client.reconnectionAttempts > 0)
    => /\ \A g \in DOMAIN pc : ~BlockedOnOwnLock(g)
       /\ client.attempts <= client.reconnectionAttempts
       /\ ("reconnect_failed" \in client.emitted
             /\ \A g \in DOMAIN pc : pc[g].at = "done")
            => client.attempts = 0 /\ client.connState = "disconnected"

\* ----------------------------------------- websocket ClientTransport claims
\* C31: OnClose of the websocket client transport is invoked at most once
\* under any interleaving of Close, Discard and errors of Run and Send;
\* Discard never invokes it; its error is nil when the closure comes from
\* Close or from an expected close code, and the original error otherwise.
C31_OnCloseOnce ==
    /\ [](Len(ct.onClose) <= 1)
    /\ [][/\ ClientDiscard => ct'.onClose = ct.onClose
          /\ (ClientClose /\ ~ct.once) => ct'.onClose = <<"nil">>
          /\ (ClientError("expected close") /\ ~ct.once) => ct'.onClose = <<"nil">>
          /\ (ClientError("other") /\ ~ct.once) => ct'.onClose = <<"other">>]_vars

\* C31 witness: a read error with an expected close code has closed the
\* transport with a nil error, and a Discard came after it.
C31_Witness ==
    /\ elast.op = "ClientDiscard" /\ ct.once /\ ct.conn = "closed"
    /\ ct.onClose = <<"nil">>

\* ------------------------------------- claims on concurrent Broadcast calls
\* C32: under any interleaving of concurrent qualifying Broadcast calls the
\* offset IDs in the packet buffer are pairwise distinct and stand in the
\* order in which they were assigned, and a step other than the sweeper
\* only appends to the buffer.
C32_BufferInOrder ==
    /\ [](\A i, j \in 1..Len(packets) : i < j => packets[i].id < packets[j].id)
    /\ [][Cleaner \/ /\ Len(packets') >= Len(packets)
                     /\ SubSeq(packets', 1, Len(packets)) = packets]_vars

\* C32 witness: two qualifying calls have left the critical section, both
\* packets are buffered, and neither call has forwarded yet.
C32_Witness ==
    /\ Len(packets) = 2
    /\ \E g, h \in DOMAIN calls :
          /\ g < h /\ calls[g].at = "forward" /\ calls[h].at = "forward"
          /\ calls[g].v = packets[1].data /\ calls[h].v = packets[2].data

\* ----------------------------------------- claims on the missed packets
\* shouldIncludePacket answers by the rooms alone.
ByRooms(sessionRooms, opts) ==
    /\ opts.rooms = {} \/ sessionRooms \cap opts.rooms # {}
    /\ sessionRooms \cap opts.except = {}

\* C33: for every stored session and every buffered packet,
\* shouldIncludePacket(session rooms, packet opts) is true exactly when
\* (opts.Rooms is empty or holds a session room) and opts.Except holds no
\* session room, and that is exactly when the session's socket, connected
\* and in the session's rooms, would have been a recipient of the broadcast.
C33_IncludedIffRecipient ==
    \A pid \in DOMAIN sessions, i \in 1..Len(packets) :
        LET s == sessions[pid].SessionToPersist
            opts == packets[i].opts
        IN /\ shouldIncludePacket(s.rooms, opts) <=> ByRooms(s.rooms, opts)
           /\ shouldIncludePacket(s.rooms, opts) <=> isRecipient(s.sid, s.rooms, opts)

\* C34: a buffered packet is reported expired by HasExpired exactly when the
\* current time is later than its emission time plus maxDisconnectDuration,
\* the rule hasExpired applies to a session's disconnect time; it is never
\* reported expired before that moment.
C34_PacketExpiry ==
    \A i \in 1..Len(packets) :
        /\ HasExpired(packets[i]) <=> now > packets[i].emittedAt + maxDisconnectDuration
        /\ HasExpired(packets[i])
              <=> hasExpired([disconnectedAt |-> packets[i].emittedAt])

\* C35: RestoreSession returns a copy: a successful call leaves the stored
\* session record as it was, its missed-packet list included, so that what
\* one call returned is not changed by the next call for the same pid.
C35_RestoreReturnsCopy ==
    [][\A pid \in PIDs, offset \in Offsets :
          (RestoreSession(pid, offset) /\ res'.ok) => sessions' = sessions]_vars

Qualifying(c) == isEventPacket(c.header) /\ withoutAcknowledgement(c.header)
OffsetOf(c) == c.v[Len(c.v)]
\* The rooms of the socket that receives the broadcasts and later resumes.
ResumingRooms == {"r1"}
Received(c) == Qualifying(c) /\ shouldIncludePacket(ResumingRooms, c.opts)

\* C36: the qualifying broadcasts are handed to the underlying adapter in
\* the order of their packets in the buffer; so for a recipient that
\* disconnects after any packet it received and resumes from that packet's
\* offset, the packets it received and the packets RestoreSession finds for
\* it have no packet in common and include every buffered packet it was a
\* recipient of.
C36_ForwardedInBufferOrder ==
    /\ \A i, j \in 1..Len(forwarded) :
          (i < j /\ Qualifying(forwarded[i]) /\ Qualifying(forwarded[j]))
          => OffsetOf(forwarded[i]) < OffsetOf(forwarded[j])
    /\ \A k \in 1..Len(forwarded) :
          (Received(forwarded[k]) /\ index(packets, OffsetOf(forwarded[k]), 1) # 0)
          => LET got == {OffsetOf(forwarded[i]) :
                            i \in {h \in 1..k : Received(forwarded[h])}}
                 at == index(packets, OffsetOf(forwarded[k]), 1)
                 found == missedPackets(packets, ResumingRooms, at + 1)
                 missed == {found[i].id : i \in 1..Len(found)}
                 due == {packets[i].id :
                            i \in {h \in 1..Len(packets) :
                                     shouldIncludePacket(ResumingRooms, packets[h].opts)}}
             IN got \cap missed = {} /\ due \subseteq (got \cup missed)

\* ------------------------------------------------- claims on disconnecting
\* C37: for every server socket serverSocket.onClose, which removes the
\* socket from its namespace, runs at most once, and the 'disconnect'
\* reserved event is emitted at most once, under any interleaving of remote
\* DISCONNECT packets, Disconnect(false) calls and Server.Close.
C37_DisconnectOnce ==
    \A s \in DOMAIN sock : sock[s].disconnect <= 1 /\ sock[s].disconnecting <= 1

\* ------------------------------------------------ claims on acknowledging
\* The ACK packets with ack ID k that socket s has handed for sending, and
\* the handler goroutines of s that will hand one when they return.
AcksHanded(s, k) ==
    LET tr == trace[sock[s].conn]
    IN Cardinality({i \in Handed(tr) : tr[i].sid = s /\ tr[i].pkt.type = "ACK"
                                        /\ tr[i].pkt.id = k})
AcksPending(s, k) ==
    Cardinality({i \in 1..Len(sock[s].calls) : sock[s].calls[i][2] = k})

\* C38: one inbound EVENT with an ack ID leads to at most one ACK packet
\* with that ID, however many handlers are registered: in every step, which
\* delivers at most one EVENT, the ACKs handed and the goroutines that will
\* hand one grow by at most one per socket and ID, and the return of a
\* goroutine does not raise their number.
C38_OneAckPerEvent ==
    [][\A s \in DOMAIN sock, k \in AckIDs \ {NoID} :
          /\ AcksHanded(s, k)' + AcksPending(s, k)'
                <= AcksHanded(s, k) + AcksPending(s, k) + 1
          /\ (\E i \in 1..MaxPackets, err \in BOOLEAN : HandlerGoroutine(s, i, err))
                => AcksHanded(s, k)' + AcksPending(s, k)'
                      <= AcksHanded(s, k) + AcksPending(s, k)]_vars

\* A goroutine that Client.Connect started has not yet returned.
ConnectInFlight ==
    \E g \in DOMAIN pc : pc[g].caller = "go" /\ pc[g].at \in {"connect.lock", "connect.body"}

\* C39: after the application has called Disconnect, and until it calls
\* Connect again, the client is in the disconnected state, no reconnection
\* attempt is counted or announced and no dial is made, whatever the
\* NoReconnection setting.
C39_NoReconnectAfterDisconnect ==
    [][(client'.userClosed /\ ~ConnectInFlight)
          => /\ client'.connState = "disconnected"
             /\ client'.attempts <= client.attempts
             /\ "reconnect_attempt" \in client'.emitted
                   => "reconnect_attempt" \in client.emitted
             /\ client'.eio = "open" => client.eio = "open"]_vars

\* ------------------------------------------------ claims on the socket store
\* C40: the socket store of a connection answers for each socket it holds
\* both by the socket's ID and by the socket's namespace; once a socket is
\* removed neither lookup finds it.
C40_StoreIndexes ==
    \A c \in Conns :
        /\ \A s \in GetAll(connSockets[c]) :
              /\ Get(connSockets[c], s) = <<s, TRUE>>
              /\ Get(connSockets[c], sock[s].nsp) = <<s, TRUE>>
        /\ \A s \in DOMAIN sock :
              (sock[s].conn = c /\ s \notin GetAll(connSockets[c]))
              => /\ Get(connSockets[c], s) # <<s, TRUE>>
                 /\ Get(connSockets[c], sock[s].nsp) # <<s, TRUE>>

====
